---- MODULE Spec2Model ----
(***************************************************************************)
(* QuotientLogger (quotientai/logger.ts): init, _internalLog and           *)
(* _internalPollForDetection, with the LogsResource collaborator seen as   *)
(* the sequence of calls made to it.                                       *)
(*                                                                         *)
(* JavaScript values are tagged records, so that `typeof`, truthiness and  *)
(* `||` are computed as the language computes them.  Numbers are rates in  *)
(* tenths (10 is 1.0); the random draw of Math.random() is in tenths too,  *)
(* in 0..9, that is in [0,1).                                              *)
(***************************************************************************)
EXTENDS Integers, Sequences, FiniteSets, TLC

----------------------------------------------------------------------------
(* JavaScript values *)

Undef == [type |-> "undefined"]
Null == [type |-> "null"]
Str(s) == [type |-> "string", s |-> s]
Num(n) == [type |-> "number", n |-> n]
Bool(b) == [type |-> "boolean", b |-> b]
Arr(a) == [type |-> "array", a |-> a]
Obj(o) == [type |-> "object", o |-> o]

\* typeof v
TypeOf(v) ==
  IF v.type \in {"null", "array"} THEN "object" ELSE v.type

\* !v
Falsy(v) ==
  \/ v.type \in {"undefined", "null"}
  \/ v.type = "string" /\ v.s = ""
  \/ v.type = "number" /\ v.n = 0
  \/ v.type = "boolean" /\ ~v.b

Truthy(v) == ~Falsy(v)

\* v || d
OrElse(v, d) == IF Truthy(v) THEN v ELSE d

\* v !== undefined
Defined(v) == v.type # "undefined"

\* Spread with the values of a kept on the keys a and b share
SpreadFirstWins(a, b) ==
  [k \in (DOMAIN a) \cup (DOMAIN b) |-> IF k \in DOMAIN a THEN a[k] ELSE b[k]]

\* { ...a, ...b } on objects seen as functions from keys to values
Spread(a, b) ==
  [k \in (DOMAIN a) \cup (DOMAIN b) |-> IF k \in DOMAIN b THEN b[k] ELSE a[k]]

EmptyObject == [k \in {} |-> Undef]

HALLUCINATION == "hallucination"
DOCUMENT_RELEVANCY == "document_relevancy"

----------------------------------------------------------------------------
(* Bounds *)

\* calls to logsResource.create in one run
MaxCreates == 2

\* length of the documents lists tried
MaxDocs == 2

\* getDetections calls made by one poll
MaxQueries == 4

\* length of the scripted answers of getDetections
MaxScript == 3

\* ticks of the clock in one run
MaxTicks == 5

----------------------------------------------------------------------------
(* Errors handed to logError, and the outcome of a call *)

NoError == [name |-> "none", msg |-> "", index |-> -1]
Err(m) == [name |-> "Error", msg |-> m, index |-> -1]
ValidationErr(m, i) == [name |-> "ValidationError", msg |-> m, index |-> i]

NoRecord == [id |-> 0]

----------------------------------------------------------------------------
(* State *)

VARIABLES
  appName,              \* this.appName: Null or a string value
  environment,          \* this.environment
  tags,                 \* this.tags
  sampleRate,           \* this.sampleRate, in tenths
  configured,           \* this.configured
  detections,           \* this.detections, a sequence of detection types
  detectionSampleRate,  \* this.detectionSampleRate, in tenths
  creates,              \* number of calls made to logsResource.create
  lastCreated,          \* the record of the last call's create, or NoRecord
  lastOp,               \* "none", "init" or "log": the last call made
  lastArg,              \* the argument of the last call (config or params)
  lastDraw,             \* the value Math.random() had in the last log call
  lastResult,           \* what the last call returned
  lastErr,              \* the error the last call handed to logError
  lastWarns,            \* console.warn calls made by the last call
  everConfigured,       \* history: some init call has succeeded
  givenRate,            \* history: config.sampleRate of the last init, if it succeeded
  now,                  \* Date.now(), in ms
  scripts,              \* per logId, the answers getDetections gives in turn
  served,               \* per logId, the getDetections calls answered so far
  poll,                 \* per detection poll, its local variables and position
  inflight              \* per concurrent log call, its local variables and position

loggerVars ==
  <<appName, environment, tags, sampleRate, configured, detections,
    detectionSampleRate>>

callVars ==
  <<creates, lastCreated, lastOp, lastArg, lastDraw, lastResult, lastErr,
    lastWarns, everConfigured, givenRate, inflight>>

pollVars == <<now, scripts, served, poll>>

vars == <<loggerVars, callVars, pollVars>>

----------------------------------------------------------------------------
(* QuotientLogger.init *)

\* [ ... ].some(Boolean) over the deprecated detection fields of a config
InitDeprecatedUsed(config) ==
  \/ Defined(config.hallucinationDetection)
  \/ Defined(config.inconsistencyDetection)
  \/ Defined(config.hallucinationDetectionSampleRate)

\* [ ... ].some(Boolean) over the new detection fields (init and log alike)
DetectionParamsUsed(p) ==
  \/ Defined(p.detections)
  \/ Defined(p.detectionSampleRate)

\* The fields of the logger as a record, with the error and warnings of a call
Fields ==
  [appName |-> appName, environment |-> environment, tags |-> tags,
   sampleRate |-> sampleRate, configured |-> configured,
   detections |-> detections, detectionSampleRate |-> detectionSampleRate,
   err |-> NoError, warns |-> 0]

\* InitAssigned with hallucinationDetection: false taken as a request
InitAssignedDefinedFlag(config) ==
  LET deprecated == InitDeprecatedUsed(config)
  IN [appName |-> config.appName,
      environment |-> config.environment,
      tags |-> OrElse(config.tags, Obj(EmptyObject)).o,
      sampleRate |-> OrElse(config.sampleRate, Num(10)).n,
      configured |-> configured,
      detections |->
        IF deprecated
        THEN (IF Defined(config.hallucinationDetection)
              THEN <<HALLUCINATION>> ELSE <<>>)
        ELSE OrElse(config.detections, Arr(<<>>)).a,
      detectionSampleRate |->
        IF deprecated
        THEN OrElse(config.hallucinationDetectionSampleRate, Num(0)).n
        ELSE OrElse(config.detectionSampleRate, Num(0)).n,
      err |-> NoError,
      warns |-> IF deprecated THEN 1 ELSE 0]

\* The assignments init makes before its range checks (lines 76-102)
InitAssigned(config) ==
  LET deprecated == InitDeprecatedUsed(config)
  IN [appName |-> config.appName,
      environment |-> config.environment,
      tags |-> OrElse(config.tags, Obj(EmptyObject)).o,
      sampleRate |-> OrElse(config.sampleRate, Num(10)).n,
      configured |-> configured,
      detections |->
        IF deprecated
        THEN (IF Truthy(config.hallucinationDetection)
              THEN <<HALLUCINATION>> ELSE <<>>)
        ELSE OrElse(config.detections, Arr(<<>>)).a,
      detectionSampleRate |->
        IF deprecated
        THEN OrElse(config.hallucinationDetectionSampleRate, Num(0)).n
        ELSE OrElse(config.detectionSampleRate, Num(0)).n,
      err |-> NoError,
      warns |-> IF deprecated THEN 1 ELSE 0]

\* InitRejected as it would be if configured were set before the checks
InitRejectedConfigured(f, e) == [f EXCEPT !.err = e, !.configured = TRUE]

\* `logError(e); return this` of a check that fails: configured is not touched
InitRejected(f, e) == [f EXCEPT !.err = e]

\* `this.configured = true; return this` (line 114)
InitAccepted(f) == [f EXCEPT !.configured = TRUE]

\* The range check made on both rates (lines 104, 109, 261)
OutOfRange(rate) == rate < 0 \/ rate > 10

\* init(config): the fields after the call, the error reported, the warnings
InitResult(config) ==
  IF Falsy(config.appName) \/ TypeOf(config.appName) # "string"
  THEN InitRejected(Fields, Err("appName must be a non-empty string"))
  ELSE IF Falsy(config.environment) \/ TypeOf(config.environment) # "string"
  THEN InitRejected(Fields, Err("environment must be a non-empty string"))
  ELSE IF Truthy(config.tags) /\ TypeOf(config.tags) # "object"
  THEN InitRejected(Fields, Err("tags must be a dictionary"))
  ELSE IF Truthy(config.sampleRate) /\ TypeOf(config.sampleRate) # "number"
  THEN InitRejected(Fields, Err("sampleRate must be a number"))
  ELSE IF InitDeprecatedUsed(config) /\ DetectionParamsUsed(config)
  THEN InitRejected(Fields,
         Err("Cannot mix deprecated parameters with new detection parameters in logger.init()"))
  ELSE IF OutOfRange(InitAssigned(config).sampleRate)
  THEN InitRejected(InitAssigned(config),
         Err("sampleRate must be between 0.0 and 1.0"))
  ELSE IF OutOfRange(InitAssigned(config).detectionSampleRate)
  THEN InitRejected(InitAssigned(config),
         Err("detectionSampleRate must be between 0.0 and 1.0"))
  ELSE InitAccepted(InitAssigned(config))

ThisLogger == [type |-> "QuotientLogger"]

InitCall(config) ==
  \E r \in {InitResult(config)} :
     /\ appName' = r.appName
     /\ environment' = r.environment
     /\ tags' = r.tags
     /\ sampleRate' = r.sampleRate
     /\ configured' = r.configured
     /\ detections' = r.detections
     /\ detectionSampleRate' = r.detectionSampleRate
     /\ lastOp' = "init"
     /\ lastArg' = config
     /\ lastDraw' = 0
     /\ lastResult' = ThisLogger
     /\ lastErr' = r.err
     /\ lastWarns' = r.warns
     /\ lastCreated' = NoRecord
     /\ everConfigured' = (everConfigured \/ r.err = NoError)
     /\ givenRate' = (IF r.err = NoError THEN config.sampleRate ELSE Undef)
     /\ UNCHANGED <<creates, inflight, pollVars>>

----------------------------------------------------------------------------
(* QuotientLogger.shouldSample, isValidLogDocument, validateDocuments *)

\* ShouldSample with <= for <
ShouldSampleInclusive(draw) == draw <= sampleRate

\* Math.random() < this.sampleRate, for the value draw of Math.random()
ShouldSample(draw) == draw < sampleRate

\* IsValidLogDocument without the check of metadata
IsValidLogDocumentNoMetadata(obj) ==
  IF "pageContent" \notin DOMAIN obj.o
  THEN "Missing required 'pageContent' property"
  ELSE IF TypeOf(obj.o["pageContent"]) # "string"
  THEN "The 'pageContent' property must be a string"
  ELSE ""

\* isValidLogDocument(obj), obj an object: the reason it is invalid, or ""
IsValidLogDocument(obj) ==
  IF "pageContent" \notin DOMAIN obj.o
  THEN "Missing required 'pageContent' property"
  ELSE IF TypeOf(obj.o["pageContent"]) # "string"
  THEN "The 'pageContent' property must be a string"
  ELSE IF /\ "metadata" \in DOMAIN obj.o
          /\ obj.o["metadata"].type # "null"
          /\ TypeOf(obj.o["metadata"]) # "object"
  THEN "The 'metadata' property must be an object"
  ELSE ""

\* The loop body of validateDocuments for one element: its error, or NoError
DocumentError(doc, i) ==
  IF TypeOf(doc) = "string" THEN NoError
  ELSE IF TypeOf(doc) = "object" /\ doc.type # "null"
  THEN (IF doc.type = "array"
        THEN ValidationErr("Invalid document format: Missing required 'pageContent' property", i)
        ELSE IF IsValidLogDocument(doc) # ""
        THEN ValidationErr("Invalid document format: " \o IsValidLogDocument(doc), i)
        ELSE NoError)
  ELSE ValidationErr("Invalid document type", i)

\* The for loop of validateDocuments from index i on: the first error met
RECURSIVE ValidateFrom(_, _)
ValidateFrom(docs, i) ==
  IF i > Len(docs) THEN NoError
  ELSE IF DocumentError(docs[i], i - 1) # NoError
  THEN DocumentError(docs[i], i - 1)
  ELSE ValidateFrom(docs, i + 1)

\* validateDocuments(documents): the error it reports (it returns false), or
\* NoError (it returns true).  Indices are reported from 0, as in the source.
ValidateDocuments(documents) ==
  IF Falsy(documents) \/ Len(documents.a) = 0 THEN NoError
  ELSE ValidateFrom(documents.a, 1)

----------------------------------------------------------------------------
(* QuotientLogger._internalLog *)

\* LogDeprecatedUsed reading hallucinationDetection alone
LogDeprecatedUsedFlagOnly(params) ==
  Defined(params.hallucinationDetection)

\* [ ... ].some(Boolean) over the deprecated detection fields of a log call
LogDeprecatedUsed(params) ==
  \/ Defined(params.hallucinationDetection)
  \/ Defined(params.inconsistencyDetection)

\* The detections of the record (lines 238-241, 254)
LogDetections(params) ==
  IF LogDeprecatedUsed(params)
  THEN (IF Truthy(params.hallucinationDetection)
        THEN <<HALLUCINATION>> ELSE <<>>)
  ELSE IF Defined(params.detections) THEN params.detections.a ELSE detections

\* LogDetectionSampleRate with `params.detectionSampleRate || this...`
LogDetectionSampleRateOr(params) ==
  IF LogDeprecatedUsed(params)
  THEN OrElse(Num(detectionSampleRate), Num(0)).n
  ELSE OrElse(params.detectionSampleRate, Num(detectionSampleRate)).n

\* The detectionSampleRate of the record (lines 243, 255-258)
LogDetectionSampleRate(params) ==
  IF LogDeprecatedUsed(params)
  THEN OrElse(Num(detectionSampleRate), Num(0)).n
  ELSE IF Defined(params.detectionSampleRate)
  THEN params.detectionSampleRate.n
  ELSE detectionSampleRate

\* The checks of a HALLUCINATION detection (lines 268-284)
HallucinationError(params) ==
  IF Falsy(params.userQuery)
  THEN Err("userQuery is required when hallucination detection is enabled")
  ELSE IF Falsy(params.modelOutput)
  THEN Err("modelOutput is required when hallucination detection is enabled")
  ELSE IF /\ Falsy(params.documents)
          /\ Falsy(params.messageHistory)
          /\ Falsy(params.instructions)
  THEN Err("At least one of documents, messageHistory, or instructions must be provided when hallucination detection is enabled")
  ELSE NoError

\* DocumentRelevancyError with modelOutput required too
DocumentRelevancyErrorWithOutput(params) ==
  IF Falsy(params.userQuery)
  THEN Err("userQuery is required when document_relevancy detection is enabled")
  ELSE IF Falsy(params.modelOutput)
  THEN Err("modelOutput is required when document_relevancy detection is enabled")
  ELSE IF Falsy(params.documents)
  THEN Err("documents must be provided when document_relevancy detection is enabled")
  ELSE NoError

\* The checks of a DOCUMENT_RELEVANCY detection (lines 285-298)
DocumentRelevancyError(params) ==
  IF Falsy(params.userQuery)
  THEN Err("userQuery is required when document_relevancy detection is enabled")
  ELSE IF Falsy(params.documents)
  THEN Err("documents must be provided when document_relevancy detection is enabled")
  ELSE NoError

\* The body of the loop over the detections (lines 267-299)
DetectionError(detection, params) ==
  IF detection = HALLUCINATION THEN HallucinationError(params)
  ELSE IF detection = DOCUMENT_RELEVANCY THEN DocumentRelevancyError(params)
  ELSE NoError

\* for (const detection of detections): the first error met from index i on
RECURSIVE DetectionsErrorFrom(_, _, _)
DetectionsErrorFrom(dets, i, params) ==
  IF i > Len(dets) THEN NoError
  ELSE IF DetectionError(dets[i], params) # NoError
  THEN DetectionError(dets[i], params)
  ELSE DetectionsErrorFrom(dets, i + 1, params)

\* Uuid giving every call the same identifier
UuidRepeated(n) == Str("uuid-1")

\* uuidv4(): an identifier no earlier call got
Uuid(n) == Str("uuid-" \o ToString(n))

\* new Date().toISOString(): the clock's value written as a string
ToISOString(ms) == Str("T" \o ToString(ms))

\* The record handed to logsResource.create (lines 321-335)
LogRecord(params, id) ==
  [id |-> id,
   createdAt |-> ToISOString(now),
   appName |-> appName,
   environment |-> environment,
   userQuery |-> params.userQuery,
   modelOutput |-> params.modelOutput,
   documents |-> params.documents,
   messageHistory |-> params.messageHistory,
   instructions |-> params.instructions,
   tags |-> Spread(tags, OrElse(params.tags, Obj(EmptyObject)).o),
   detections |-> LogDetections(params),
   detectionSampleRate |-> LogDetectionSampleRate(params)]

\* Failed returning undefined
FailedUndefined(e, w) ==
  [result |-> Undef, err |-> e, warns |-> w, created |-> NoRecord]

\* logError(e); return null, after w calls of console.warn
Failed(e, w) == [result |-> Null, err |-> e, warns |-> w, created |-> NoRecord]

\* A value `for (const x of v)` can run over; the model has arrays only
Iterable(v) == v.type = "array"

\* The promise of the async function rejected with a TypeError: nothing was
\* handed to logError or to create
Rejected(msg, w) ==
  [result |-> [type |-> "rejected", s |-> "TypeError: " \o msg],
   err |-> NoError, warns |-> w, created |-> NoRecord]

\* _internalLog(params) with Math.random() = draw: what it returns, the error
\* it reports, its warnings and the record it hands to create (or NoRecord)
InternalLogResult(params, draw) ==
  IF ~configured
  THEN Failed(Err("Logger is not configured. Please call init() before logging."), 0)
  ELSE IF Falsy(appName) \/ Falsy(environment)
  THEN Failed(Err("Logger is not properly configured. appName and environment must be set."), 0)
  ELSE IF LogDeprecatedUsed(params) /\ DetectionParamsUsed(params)
  THEN Failed(Err("Cannot mix deprecated parameters with new detection parameters"), 0)
  ELSE IF LogDeprecatedUsed(params)
          /\ (Falsy(params.userQuery) \/ Falsy(params.modelOutput))
  THEN Failed(Err("userQuery and modelOutput are required when using deprecated parameters"), 1)
  ELSE IF ~LogDeprecatedUsed(params)
          /\ OutOfRange(LogDetectionSampleRate(params))
  THEN Failed(Err("detectionSampleRate must be between 0 and 1"), 0)
  ELSE IF ~LogDeprecatedUsed(params)
          /\ Defined(params.detections) /\ ~Iterable(params.detections)
  THEN Rejected("detections is not iterable", 0)
  ELSE IF ~LogDeprecatedUsed(params)
          /\ DetectionsErrorFrom(LogDetections(params), 1, params) # NoError
  THEN Failed(DetectionsErrorFrom(LogDetections(params), 1, params), 0)
  ELSE LET w == IF LogDeprecatedUsed(params) THEN 1 ELSE 0
       IN IF Truthy(params.documents)
             /\ ValidateDocuments(params.documents) # NoError
          THEN Failed(ValidateDocuments(params.documents), w)
          ELSE IF ShouldSample(draw)
          THEN [result |-> Uuid(creates + 1), err |-> NoError, warns |-> w,
                created |-> LogRecord(params, Uuid(creates + 1))]
          ELSE [result |-> Undef, err |-> NoError, warns |-> w,
                created |-> NoRecord]

\* LogEffects with the merged tags of a submitted record kept as the
\* logger's default tags
LogEffectsKeepsTags(r, params, draw) ==
  /\ creates < MaxCreates
  /\ lastOp' = "log"
  /\ lastArg' = params
  /\ lastDraw' = draw
  /\ lastResult' = r.result
  /\ lastErr' = r.err
  /\ lastWarns' = r.warns
  /\ lastCreated' = r.created
  /\ creates' = (IF r.created # NoRecord THEN creates + 1 ELSE creates)
  /\ tags' = (IF r.created # NoRecord THEN r.created.tags ELSE tags)
  /\ UNCHANGED <<appName, environment, sampleRate, configured, detections,
                 detectionSampleRate, everConfigured, givenRate, pollVars>>

\* What a log call with the outcome r does to the collaborator and to the
\* record of the last call
LogEffects(r, params, draw) ==
  /\ creates < MaxCreates
  /\ lastOp' = "log"
  /\ lastArg' = params
  /\ lastDraw' = draw
  /\ lastResult' = r.result
  /\ lastErr' = r.err
  /\ lastWarns' = r.warns
  /\ lastCreated' = r.created
  /\ creates' = (IF r.created # NoRecord THEN creates + 1 ELSE creates)
  /\ UNCHANGED <<loggerVars, everConfigured, givenRate, pollVars>>

\* _internalLog(params) run to its end, create resolving at once
LogCall(params, draw) ==
  \E r \in {InternalLogResult(params, draw)} :
     /\ LogEffects(r, params, draw)
     /\ inflight' = inflight

\* The concurrent log calls a caller may have issued
CallIds == {1, 2}

\* A log call that has not been issued
IdleCall ==
  [pc |-> "idle", params |-> Undef, record |-> NoRecord, result |-> Undef,
   err |-> NoError]

\* _internalLog(params) of call c up to its `await this.logsResource.create`
\* (lines 192-321), or to its return when it does not reach create
LogStart(c, params, draw) ==
  \E r \in {InternalLogResult(params, draw)} :
     /\ inflight[c].pc = "idle"
     /\ LogEffects(r, params, draw)
     /\ inflight' = [inflight EXCEPT ![c] =
          [pc |-> IF r.created # NoRecord THEN "await_create" ELSE "done",
           params |-> params, record |-> r.created,
           result |-> IF r.created # NoRecord THEN Undef ELSE r.result,
           err |-> r.err]]

\* CreateResolves returning the id of the record created last on the logger
CreateResolvesLastId(c) ==
  /\ inflight[c].pc = "await_create"
  /\ inflight' = [inflight EXCEPT ![c].pc = "done",
                                  ![c].result = lastCreated.id]
  /\ UNCHANGED <<loggerVars, creates, lastCreated, lastOp, lastArg, lastDraw,
                 lastResult, lastErr, lastWarns, everConfigured, givenRate,
                 pollVars>>

\* create resolves for call c, which returns its id (line 337)
CreateResolves(c) ==
  /\ inflight[c].pc = "await_create"
  /\ inflight' = [inflight EXCEPT ![c].pc = "done",
                                  ![c].result = inflight[c].record.id]
  /\ UNCHANGED <<loggerVars, creates, lastCreated, lastOp, lastArg, lastDraw,
                 lastResult, lastErr, lastWarns, everConfigured, givenRate,
                 pollVars>>

----------------------------------------------------------------------------
(* QuotientLogger._internalPollForDetection *)

LOG_NOT_FOUND == "log_not_found"
LOG_CREATION_IN_PROGRESS == "log_creation_in_progress"
LOG_CREATED_NO_DETECTIONS_PENDING == "log_created_no_detections_pending"
LOG_CREATED_AND_DETECTION_IN_PROGRESS == "log_created_and_detection_in_progress"
LOG_CREATED_AND_DETECTION_COMPLETED == "log_created_and_detection_completed"

LOG_STATUS ==
  {LOG_NOT_FOUND, LOG_CREATION_IN_PROGRESS, LOG_CREATED_NO_DETECTIONS_PENDING,
   LOG_CREATED_AND_DETECTION_IN_PROGRESS, LOG_CREATED_AND_DETECTION_COMPLETED}

\* timeout * 1000, pollInterval * 1000 (lines 362-364)
MsPerSecond == 1000

\* The clock moves in steps of half a second
TickMs == MsPerSecond \div 2

PollIds == {1, 2}

\* What an await of getDetections gives: a value, or an Error thrown
Returned(v) == [thrown |-> FALSE, value |-> v]
Threw(msg) == [thrown |-> TRUE, value |-> Str(msg)]

\* A results object { log: { status } }
ResultsWith(status) ==
  Obj([k \in {"log"} |-> Obj([j \in {"status"} |-> Str(status)])])

\* The answer to the n-th getDetections call for a log id: the script's n-th
\* element, its last one from then on
AnswerAt(script, n) == script[IF n < Len(script) THEN n ELSE Len(script)]

IdlePoll ==
  [pc |-> "idle", logId |-> Undef, startTime |-> 0, timeoutMs |-> 0,
   currentPollInterval |-> 0, baseInterval |-> 0, wakeAt |-> 0,
   result |-> Undef, err |-> NoError, queries |-> 0, sleeps |-> 0,
   events |-> <<>>, lastResponse |-> Returned(Undef), timeout |-> 0,
   askedAt |-> 0, errors |-> 0]

\* IsFinalStatus with the detection in progress taken as final
IsFinalStatusWithInProgress(status) ==
  \/ status = LOG_CREATED_NO_DETECTIONS_PENDING
  \/ status = LOG_CREATED_AND_DETECTION_IN_PROGRESS
  \/ status = LOG_CREATED_AND_DETECTION_COMPLETED

\* IsFinalStatus with the completed detection alone taken as final
IsFinalStatusCompletedOnly(status) ==
  status = LOG_CREATED_AND_DETECTION_COMPLETED

\* The test of lines 377-380
IsFinalStatus(status) ==
  \/ status = LOG_CREATED_NO_DETECTIONS_PENDING
  \/ status = LOG_CREATED_AND_DETECTION_COMPLETED

\* results && results.log, then the test of results.log.status (lines 373-383)
IsFinal(results) ==
  /\ Truthy(results)
  /\ "log" \in DOMAIN results.o
  /\ Truthy(results.o["log"])
  /\ "status" \in DOMAIN results.o["log"].o
  /\ IsFinalStatus(results.o["log"].o["status"].s)

\* error.message.includes('Event loop is closed') (line 389)
IsEventLoopClosed(msg) ==
  msg.s \in {"Event loop is closed", "RuntimeError: Event loop is closed"}

\* `return null` after logError(e)
PollFailed(pr, e) ==
  [pr EXCEPT !.pc = "done", !.result = Null, !.err = e, !.errors = @ + 1]

\* The error of line 397
TimeoutError(pr) ==
  Err("Timed out waiting for detection results after "
      \o ToString(pr.timeout) \o " seconds")

\* LoopHead with the elapsed milliseconds compared with the timeout in seconds
LoopHeadSeconds(pr) ==
  IF now - pr.startTime < pr.timeout
  THEN [pr EXCEPT !.pc = "await_query", !.queries = @ + 1, !.askedAt = now,
                  !.events = Append(@, "query")]
  ELSE PollFailed(pr, TimeoutError(pr))

\* LoopHead with the loop entered while the elapsed time is at most the timeout
LoopHeadInclusive(pr) ==
  IF now - pr.startTime <= pr.timeoutMs
  THEN [pr EXCEPT !.pc = "await_query", !.queries = @ + 1, !.askedAt = now,
                  !.events = Append(@, "query")]
  ELSE PollFailed(pr, TimeoutError(pr))

\* The head of the while loop (line 366) up to the next await: the call of
\* getDetections, or the timeout error of lines 397-398
LoopHead(pr) ==
  IF now - pr.startTime < pr.timeoutMs
  THEN [pr EXCEPT !.pc = "await_query", !.queries = @ + 1, !.askedAt = now,
                  !.events = Append(@, "query")]
  ELSE PollFailed(pr, TimeoutError(pr))

\* await new Promise((resolve) => setTimeout(resolve, currentPollInterval))
Sleep(pr) ==
  [pr EXCEPT !.pc = "await_sleep", !.wakeAt = now + pr.currentPollInterval,
             !.sleeps = @ + 1, !.events = Append(@, "sleep")]

\* AfterAnswer with an error other than 'Event loop is closed' ending the poll
AfterAnswerAbortsOnError(pr, answer) ==
  IF ~answer.thrown
  THEN LET q == [pr EXCEPT !.currentPollInterval = pr.baseInterval,
                           !.lastResponse = answer]
       IN IF IsFinal(answer.value)
          THEN [q EXCEPT !.pc = "done", !.result = answer.value]
          ELSE Sleep(q)
  ELSE IF IsEventLoopClosed(answer.value)
  THEN Sleep([pr EXCEPT !.lastResponse = answer])
  ELSE PollFailed([pr EXCEPT !.lastResponse = answer],
                  [name |-> "Error", msg |-> answer.value.s, index |-> -1])

\* The loop body once getDetections has answered (lines 368-394)
AfterAnswer(pr, answer) ==
  IF ~answer.thrown
  THEN LET q == [pr EXCEPT !.currentPollInterval = pr.baseInterval,
                           !.lastResponse = answer]
       IN IF IsFinal(answer.value)
          THEN [q EXCEPT !.pc = "done", !.result = answer.value]
          ELSE Sleep(q)
  ELSE IF IsEventLoopClosed(answer.value)
  THEN Sleep([pr EXCEPT !.lastResponse = answer])
  ELSE Sleep([pr EXCEPT !.lastResponse = answer])

\* PollEnter without the test of this.configured
PollEnterNoConfiguredCheck(p, logId, timeout, pollInterval) ==
  /\ poll[p].pc = "idle"
  /\ poll' = [poll EXCEPT ![p] =
       LET pr == [poll[p] EXCEPT !.logId = logId, !.timeout = timeout]
       IN IF Falsy(logId)
          THEN PollFailed(pr, Err("Log ID is required for detection polling."))
          ELSE LoopHead([pr EXCEPT !.startTime = now,
                                   !.timeoutMs = timeout * MsPerSecond,
                                   !.currentPollInterval = pollInterval * MsPerSecond,
                                   !.baseInterval = pollInterval * MsPerSecond])]
  /\ UNCHANGED <<loggerVars, callVars, now, scripts, served>>

\* _internalPollForDetection(logId, timeout, pollInterval) up to its first
\* await (lines 347-368)
PollEnter(p, logId, timeout, pollInterval) ==
  /\ poll[p].pc = "idle"
  /\ poll' = [poll EXCEPT ![p] =
       LET pr == [poll[p] EXCEPT !.logId = logId, !.timeout = timeout]
       IN IF ~configured
          THEN PollFailed(pr, Err("Logger is not configured. Please call init() before polling for detection results."))
          ELSE IF Falsy(logId)
          THEN PollFailed(pr, Err("Log ID is required for detection polling."))
          ELSE LoopHead([pr EXCEPT !.startTime = now,
                                   !.timeoutMs = timeout * MsPerSecond,
                                   !.currentPollInterval = pollInterval * MsPerSecond,
                                   !.baseInterval = pollInterval * MsPerSecond])]
  /\ UNCHANGED <<loggerVars, callVars, now, scripts, served>>

\* QueryReturns with one cursor into the answers shared by all log ids
QueryReturnsSharedCursor(p) ==
  /\ poll[p].pc = "await_query"
  /\ LET id == poll[p].logId.s
     IN /\ served' = [i \in DOMAIN served |-> served[i] + 1]
        /\ poll' = [poll EXCEPT ![p] =
             AfterAnswer(poll[p], AnswerAt(scripts[id], served[id] + 1))]
  /\ UNCHANGED <<loggerVars, callVars, now, scripts>>

\* getDetections answers poll p, which runs on to its next await or returns
QueryReturns(p) ==
  /\ poll[p].pc = "await_query"
  /\ LET id == poll[p].logId.s
     IN /\ served' = [served EXCEPT ![id] = @ + 1]
        /\ poll' = [poll EXCEPT ![p] =
             AfterAnswer(poll[p], AnswerAt(scripts[id], served[id] + 1))]
  /\ UNCHANGED <<loggerVars, callVars, now, scripts>>

\* The timer of poll p fires, and p runs on to its next await or returns
SleepEnds(p) ==
  /\ poll[p].pc = "await_sleep"
  /\ now >= poll[p].wakeAt
  /\ poll[p].queries < MaxQueries
  /\ poll' = [poll EXCEPT ![p] = LoopHead(poll[p])]
  /\ UNCHANGED <<loggerVars, callVars, now, scripts, served>>

\* Time passes while a poll waits: up to MaxTicks ticks, and until a timer
\* that was set has had the time to fire
Tick ==
  /\ \E p \in PollIds :
       \/ poll[p].pc \in {"await_query", "await_sleep"} /\ now < MaxTicks * TickMs
       \/ poll[p].pc = "await_sleep" /\ now <= poll[p].wakeAt
  /\ now' = now + TickMs
  /\ UNCHANGED <<loggerVars, callVars, scripts, served, poll>>

----------------------------------------------------------------------------
(* Inputs *)

\* Math.random() is in [0,1): 0.0 and 0.5
Draws == {0, 5}

TeamTags == Obj([k \in {"team"} |-> Str("core")])
CallTags == Obj([k \in {"team", "run"} |-> Str("call")])

\* The detection fields of a config or of a log call: old scheme, new scheme
Detect(hd, inc, hdsr, det, dsr) ==
  [hallucinationDetection |-> hd, inconsistencyDetection |-> inc,
   hallucinationDetectionSampleRate |-> hdsr,
   detections |-> det, detectionSampleRate |-> dsr]

NoDetect == Detect(Undef, Undef, Undef, Undef, Undef)

LegacyOnly ==
  {Detect(hd, inc, hdsr, Undef, Undef) :
     hd \in {Undef, Bool(TRUE), Bool(FALSE)}, inc \in {Undef, Bool(TRUE)},
     hdsr \in {Undef, Num(0), Num(5)}}
  \cup {Detect(Undef, Undef, Num(15), Undef, Undef)}

CurrentOnly ==
  {Detect(Undef, Undef, Undef, det, dsr) :
     det \in {Undef, Arr(<<>>), Arr(<<HALLUCINATION>>),
              Arr(<<DOCUMENT_RELEVANCY>>)},
     dsr \in {Undef, Num(5)}}
  \cup {Detect(Undef, Undef, Undef, Undef, Num(15)),
        Detect(Undef, Undef, Undef, Undef, Num(0))}

Mixed ==
  {[l EXCEPT !.detections = c.detections,
             !.detectionSampleRate = c.detectionSampleRate] :
     l \in {Detect(Bool(TRUE), Undef, Undef, Undef, Undef),
            Detect(Bool(FALSE), Undef, Undef, Undef, Undef),
            Detect(Undef, Bool(FALSE), Undef, Undef, Undef),
            Detect(Undef, Undef, Num(5), Undef, Undef)},
     c \in {Detect(Undef, Undef, Undef, Arr(<<>>), Undef),
            Detect(Undef, Undef, Undef, Undef, Num(0))}}

Config(a, e, t, sr, d) ==
  [appName |-> a, environment |-> e, tags |-> t, sampleRate |-> sr,
   hallucinationDetection |-> d.hallucinationDetection,
   inconsistencyDetection |-> d.inconsistencyDetection,
   hallucinationDetectionSampleRate |-> d.hallucinationDetectionSampleRate,
   detections |-> d.detections,
   detectionSampleRate |-> d.detectionSampleRate]

\* Configs that init rejects before it reads the rates and detection fields
EarlyRejected ==
  {Config(a, Str("dev"), Undef, Undef, NoDetect) :
     a \in {Undef, Str(""), Num(7)}}
  \cup {Config(Str("app"), e, Undef, Undef, NoDetect) :
     e \in {Undef, Str(""), Num(7)}}
  \cup {Config(Str("app"), Str("dev"), Str("x"), Undef, NoDetect),
        Config(Str("app"), Str("dev"), Undef, Str("x"), NoDetect)}

InitConfigs ==
  EarlyRejected
  \cup {Config(Str("app"), Str("dev"), t, sr, NoDetect) :
          t \in {Undef, TeamTags},
          sr \in {Undef, Num(0), Num(5), Num(10), Num(15), Num(-5)}}
  \cup {Config(Str("app"), Str("dev"), Undef, sr, d) :
          sr \in {Undef, Num(15)},
          d \in LegacyOnly \cup CurrentOnly \cup Mixed}

Params(uq, mo, docs, mh, ins, t, d) ==
  [userQuery |-> uq, modelOutput |-> mo, documents |-> docs,
   messageHistory |-> mh, instructions |-> ins, tags |-> t,
   hallucinationDetection |-> d.hallucinationDetection,
   inconsistencyDetection |-> d.inconsistencyDetection,
   hallucinationDetectionSampleRate |-> d.hallucinationDetectionSampleRate,
   detections |-> d.detections,
   detectionSampleRate |-> d.detectionSampleRate]

LogParams ==
  {Params(uq, mo, docs, Undef, Undef, Undef, d) :
     uq \in {Undef, Str("q")}, mo \in {Undef, Str("m")},
     docs \in {Undef, Arr(<<Str("d")>>)},
     d \in {NoDetect,
            Detect(Bool(TRUE), Undef, Undef, Undef, Undef),
            Detect(Bool(FALSE), Undef, Undef, Undef, Undef),
            Detect(Undef, Bool(TRUE), Undef, Undef, Undef),
            Detect(Undef, Undef, Num(5), Undef, Undef),
            Detect(Bool(TRUE), Undef, Num(5), Undef, Undef),
            Detect(Undef, Undef, Undef, Arr(<<HALLUCINATION>>), Undef),
            Detect(Undef, Undef, Undef, Arr(<<DOCUMENT_RELEVANCY>>), Undef),
            Detect(Undef, Undef, Undef, Arr(<<>>), Undef),
            Detect(Undef, Undef, Undef, Undef, Num(15)),
            Detect(Undef, Undef, Undef, Undef, Num(0)),
            Detect(Bool(TRUE), Undef, Undef, Arr(<<DOCUMENT_RELEVANCY>>), Undef),
            Detect(Undef, Undef, Num(5), Arr(<<>>), Undef),
            Detect(Undef, Bool(FALSE), Undef, Undef, Num(0))}}

----------------------------------------------------------------------------
(* Specification: any sequence of init and log calls on a new logger *)

\* The fields of a QuotientLogger after its constructor (lines 19-32)
NewLogger ==
  /\ appName = Null
  /\ environment = Null
  /\ tags = EmptyObject
  /\ sampleRate = 10
  /\ configured = FALSE
  /\ detections = <<>>
  /\ detectionSampleRate = 0

NoCalls ==
  /\ creates = 0
  /\ lastCreated = NoRecord
  /\ lastOp = "none"
  /\ lastArg = Undef
  /\ lastDraw = 0
  /\ lastResult = Undef
  /\ lastErr = NoError
  /\ lastWarns = 0
  /\ everConfigured = FALSE
  /\ givenRate = Undef
  /\ inflight = [c \in CallIds |-> IdleCall]

NoPolls ==
  /\ now = 0
  /\ scripts = [id \in {} |-> <<>>]
  /\ served = [id \in {} |-> 0]
  /\ poll = [p \in PollIds |-> IdlePoll]

Init == NewLogger /\ NoCalls /\ NoPolls

DoInit == \E config \in InitConfigs : InitCall(config)

DoLog == \E params \in LogParams, draw \in Draws : LogCall(params, draw)

Next == DoInit \/ DoLog

Spec == Init /\ [][Next]_vars

----------------------------------------------------------------------------
(* Specification SpecFields: the field requirements of the detections.     *)
(* The logger is configured with each detection list, and the log calls    *)
(* vary the presence of every field the requirements read.                 *)

FieldConfigs ==
  {Config(Str("app"), Str("dev"), Undef, Undef,
          Detect(Undef, Undef, Undef, det, Undef)) :
     det \in {Undef, Arr(<<HALLUCINATION>>), Arr(<<DOCUMENT_RELEVANCY>>),
              Arr(<<HALLUCINATION, DOCUMENT_RELEVANCY>>)}}

FieldParams ==
  {Params(uq, mo, docs, mh, ins, Undef,
          Detect(Undef, Undef, Undef, det, Undef)) :
     uq \in {Undef, Str("q")},
     mo \in {Undef, Str("m")},
     docs \in {Undef, Arr(<<>>), Arr(<<Str("d")>>)},
     mh \in {Undef, Null, Arr(<<Obj([k \in {"role"} |-> Str("user")])>>)},
     ins \in {Undef, Arr(<<Str("i")>>)},
     det \in {Undef, Arr(<<>>), Arr(<<DOCUMENT_RELEVANCY>>),
              Arr(<<DOCUMENT_RELEVANCY, HALLUCINATION>>)}}
  \cup
  {Params(uq, mo, docs, Undef, Undef, Undef,
          Detect(Undef, Undef, Undef, Arr(<<DOCUMENT_RELEVANCY>>), dsr)) :
     uq \in {Str(""), Str("q")},
     mo \in {Undef, Str("m")},
     docs \in {Undef, Arr(<<Str("d")>>), Arr(<<Num(1)>>)},
     dsr \in {Num(0), Num(10), Num(15)}}

DoInitFields == \E config \in FieldConfigs : InitCall(config)

DoLogFields == \E params \in FieldParams : LogCall(params, 0)

NextFields == DoInitFields \/ DoLogFields

SpecFields == Init /\ [][NextFields]_vars

----------------------------------------------------------------------------
(* Specification SpecDocs: validateDocuments over every documents list of  *)
(* at most MaxDocs elements, on a logger configured without detections.    *)

\* { pageContent: pc, metadata: md }; with pc Undef the object has a
\* `content` key instead, and with md Undef it has no metadata key
Doc(pc, md) ==
  Obj([k \in (IF Defined(pc) THEN {"pageContent"} ELSE {"content"})
             \cup (IF Defined(md) THEN {"metadata"} ELSE {}) |->
         IF k = "metadata" THEN md ELSE IF Defined(pc) THEN pc ELSE Str("text")])

DocElements ==
  {Str("d"), Num(1), Null, Arr(<<>>),
   Doc(Undef, Undef), Doc(Num(1), Undef), Doc(Str("text"), Undef),
   Doc(Str("text"), Null),
   Doc(Str("text"), Obj([k \in {"source"} |-> Str("y")])),
   Doc(Str("text"), Str("meta")),
   Obj([k \in {"pageContent", "metadata"} |->
          IF k = "metadata" THEN Undef ELSE Str("text")])}

DocLists == UNION {[1..n -> DocElements] : n \in 0..MaxDocs}

DocsConfigs == {Config(Str("app"), Str("dev"), Undef, Undef, NoDetect)}

DocsParams ==
  {Params(Str("q"), Str("m"), Arr(l), Undef, Undef, Undef, NoDetect) :
     l \in DocLists}

DoInitDocs == \E config \in DocsConfigs : InitCall(config)

DoLogDocs == \E params \in DocsParams : LogCall(params, 0)

NextDocs == DoInitDocs \/ DoLogDocs

SpecDocs == Init /\ [][NextDocs]_vars

----------------------------------------------------------------------------
(* Properties of init and log *)

\* The last call was a log call that handed a record to create
Created == lastOp = "log" /\ lastCreated # NoRecord

\* The last call was a log call that failed: an error reported, null
\* returned, nothing handed to create
LogFailed ==
  /\ lastOp = "log"
  /\ lastErr # NoError
  /\ lastResult = Null
  /\ lastCreated = NoRecord

\* C1: as long as no init call has succeeded (failed init calls included),
\* every log call reports an error and returns null, and create has never
\* been called.
C1_NoLogBeforeInit ==
  ~everConfigured => creates = 0 /\ (lastOp = "log" => LogFailed)

\* C1 witness: a complete log call made after a failed init that had already
\* stored its appName, no init having succeeded.
C1_Witness ==
  /\ ~everConfigured
  /\ lastOp = "log"
  /\ appName = Str("app")
  /\ Truthy(lastArg.userQuery) /\ Truthy(lastArg.modelOutput)
  /\ lastResult = Null

\* C2: a log call makes exactly one call to create when it reported no error
\* (it passed every check) and its draw was below the logger's sampleRate,
\* and no call otherwise; an init call makes none.  So over any sequence the
\* count of create calls is the count of such log calls.
C2_OneCreatePerSampledValidCall ==
  [][/\ lastOp' = "log" =>
          creates' - creates =
            (IF lastErr' = NoError /\ lastDraw' < sampleRate THEN 1 ELSE 0)
     /\ lastOp' = "init" => creates' = creates]_vars

\* C2 witness: after a create call, a valid log call was sampled out at the
\* boundary draw = sampleRate.
C2_Witness ==
  /\ creates = 1
  /\ lastOp = "log" /\ lastErr = NoError /\ lastCreated = NoRecord
  /\ lastDraw = sampleRate

\* C3 (as claimed): an init call that reports an error leaves every
\* configuration field as it was.
C3_InitAllOrNothing ==
  [][lastOp' = "init" /\ lastErr' # NoError => UNCHANGED loggerVars]_vars

\* Any old-scheme field set, whatever its value
AnyLegacyField(p) ==
  \/ Defined(p.hallucinationDetection)
  \/ Defined(p.inconsistencyDetection)
  \/ Defined(p.hallucinationDetectionSampleRate)

\* Any new-scheme field set
AnyCurrentField(p) ==
  \/ Defined(p.detections)
  \/ Defined(p.detectionSampleRate)

\* C4 (as claimed): an init or log call that sets an old-scheme field together
\* with a new-scheme field fails with a reported error; the log call returns
\* null without calling create, the init call does not configure the logger.
C4_MixedSchemesRejected ==
  [][lastOp' \in {"init", "log"}
       /\ AnyLegacyField(lastArg') /\ AnyCurrentField(lastArg')
     => /\ lastErr' # NoError
        /\ lastOp' = "log" => lastResult' = Null /\ creates' = creates
        /\ lastOp' = "init" => configured' = configured]_vars

\* The context of a log call: one of documents, messageHistory, instructions
HasContext(p) ==
  Defined(p.documents) \/ Defined(p.messageHistory) \/ Defined(p.instructions)

\* C5 (as claimed): a record with 'hallucination' among its detections is
\* handed to create only for a call that gave userQuery, modelOutput and some
\* context; a log call on a configured logger whose resolved detections hold
\* HALLUCINATION and that misses one of them fails.
C5_HallucinationRequirements ==
  /\ Created /\ (\E i \in 1..Len(lastCreated.detections) :
                   lastCreated.detections[i] = HALLUCINATION)
     => /\ Defined(lastArg.userQuery)
        /\ Defined(lastArg.modelOutput)
        /\ HasContext(lastArg)
  /\ lastOp = "log" /\ configured
       /\ (\E i \in 1..Len(LogDetections(lastArg)) :
             LogDetections(lastArg)[i] = HALLUCINATION)
       /\ ~(Defined(lastArg.userQuery) /\ Defined(lastArg.modelOutput)
            /\ HasContext(lastArg))
     => LogFailed

\* A documents element the logger accepts
ValidDocument(d) ==
  \/ d.type = "string"
  \/ /\ d.type = "object"
     /\ "pageContent" \in DOMAIN d.o
     /\ d.o["pageContent"].type = "string"
     /\ "metadata" \in DOMAIN d.o =>
          d.o["metadata"].type \in {"null", "object", "array"}

ValidDocuments(docs) ==
  docs.type = "array" /\ \A i \in 1..Len(docs.a) : ValidDocument(docs.a[i])

\* C6: on a configured logger, a log call in the new scheme whose resolved
\* detections are [DOCUMENT_RELEVANCY] (sample rate in range) passes with
\* userQuery and valid documents given, modelOutput given or not: no error
\* and, when sampled, an id returned and one record handed to create.  With
\* userQuery or documents missing it fails.
C6_DocumentRelevancyRequirements ==
  lastOp = "log" /\ configured
    /\ ~LogDeprecatedUsed(lastArg)
    /\ LogDetections(lastArg) = <<DOCUMENT_RELEVANCY>>
    /\ LogDetectionSampleRate(lastArg) \in 0..10
  => IF Truthy(lastArg.userQuery) /\ Truthy(lastArg.documents)
     THEN ValidDocuments(lastArg.documents)
          => /\ lastErr = NoError
             /\ lastDraw < sampleRate
                => lastResult.type = "string" /\ Created
                   /\ lastCreated.id = lastResult
     ELSE LogFailed

\* C6 witness: a document-relevancy call without modelOutput was submitted.
C6_Witness ==
  /\ Created
  /\ lastCreated.detections = <<DOCUMENT_RELEVANCY>>
  /\ Defined(lastArg.detections)
  /\ ~Defined(lastArg.modelOutput)
  /\ lastResult.type = "string"

\* The least index (from 0) of an element that is not a valid document
FirstInvalid(docs) ==
  CHOOSE i \in 0..(Len(docs.a) - 1) :
    /\ ~ValidDocument(docs.a[i + 1])
    /\ \A j \in 0..(i - 1) : ValidDocument(docs.a[j + 1])

\* The reason a documents element is rejected for: a missing field (no
\* pageContent key on an object) or a wrong type
MissingField(d) ==
  \/ d.type = "array"
  \/ d.type = "object" /\ "pageContent" \notin DOMAIN d.o

MissingFieldMsg ==
  "Invalid document format: Missing required 'pageContent' property"

\* C7: on a configured logger, a log call with a non-empty documents list and
\* nothing else wrong is accepted (no error) iff every element is a valid
\* document; otherwise it fails with a ValidationError that names the least
\* offending index and says whether a field is missing or a type is wrong.
C7_DocumentValidation ==
  lastOp = "log" /\ configured /\ Truthy(lastArg.documents)
  => IF ValidDocuments(lastArg.documents)
     THEN lastErr = NoError /\ Created
     ELSE /\ LogFailed
          /\ lastErr.name = "ValidationError"
          /\ lastErr.index = FirstInvalid(lastArg.documents)
          /\ (lastErr.msg = MissingFieldMsg) <=>
               MissingField(lastArg.documents.a[lastErr.index + 1])

\* C7 witness: a list whose first element is valid and whose second has a
\* metadata that is not an object was rejected at index 1.
C7_Witness ==
  /\ LogFailed
  /\ lastErr.name = "ValidationError"
  /\ lastErr.index = 1
  /\ lastErr.msg # MissingFieldMsg
  /\ lastArg.documents.a[2].type = "object"
  /\ "metadata" \in DOMAIN lastArg.documents.a[2].o

\* C8 (as claimed): after an init call that succeeded with sampleRate = r,
\* r in [0,1], a valid log call is handed to create iff its draw is below r.
C8_SampledIffDrawBelowGivenRate ==
  lastOp = "log" /\ lastErr = NoError
    /\ givenRate.type = "number" /\ givenRate.n \in 0..10
  => (Created <=> lastDraw < givenRate.n)

----------------------------------------------------------------------------
(* Specification SpecPoll: one detection poll, on a new logger or on a     *)
(* configured one, against every scripted sequence of getDetections        *)
(* answers of at most MaxScript elements.                                  *)

\* The fields after init({ appName: 'app', environment: 'dev' })
ConfiguredLogger ==
  /\ appName = Str("app")
  /\ environment = Str("dev")
  /\ tags = EmptyObject
  /\ sampleRate = 10
  /\ configured = TRUE
  /\ detections = <<>>
  /\ detectionSampleRate = 0

Answers ==
  {Returned(ResultsWith(st)) : st \in LOG_STATUS}
  \cup {Returned(Null), Returned(Obj(EmptyObject)),
        Threw("Event loop is closed"), Threw("Network Error")}

Scripts == UNION {[1..n -> Answers] : n \in 1..MaxScript}

\* seconds
Timeouts == {0, 1, 3}
PollIntervals == {0, 1}

InitPoll ==
  /\ \/ NewLogger /\ scripts = [id \in {"log-1"} |-> <<Returned(Null)>>]
     \/ ConfiguredLogger /\ scripts \in [{"log-1"} -> Scripts]
  /\ NoCalls
  /\ now = 0
  /\ served = [id \in {"log-1"} |-> 0]
  /\ poll = [p \in PollIds |-> IdlePoll]

DoPollEnter ==
  \E logId \in {Str(""), Str("log-1")}, timeout \in Timeouts,
     pollInterval \in PollIntervals :
    PollEnter(1, logId, timeout, pollInterval)

DoQueryReturns == QueryReturns(1)

DoSleepEnds == SleepEnds(1)

NextPoll == DoPollEnter \/ DoQueryReturns \/ DoSleepEnds \/ Tick

SpecPoll == InitPoll /\ [][NextPoll]_vars

----------------------------------------------------------------------------
(* Properties of the detection poll *)

\* A getDetections answer with which the poll may end: a results object
\* whose log.status is one of the two terminal statuses
TerminalAnswer(a) ==
  /\ ~a.thrown
  /\ a.value.type = "object"
  /\ "log" \in DOMAIN a.value.o
  /\ a.value.o["log"].type = "object"
  /\ a.value.o["log"].o["status"].s \in
       {LOG_CREATED_NO_DETECTIONS_PENDING, LOG_CREATED_AND_DETECTION_COMPLETED}

\* The answer getDetections gave last for a log id
MostRecentAnswer(id) == AnswerAt(scripts[id], served[id])

\* C9: a poll that returns a non-null value returns the value of the most
\* recent getDetections answer, whose log.status is terminal.  The step that
\* takes an answer returns it, with no further query or sleep, iff it is
\* terminal; on any other answer (another status, null, no log, an error) the
\* poll returns nothing and goes to sleep.  A poll that has returned makes no
\* further step.
C9_PollReturnsTerminalAnswer ==
  [][/\ poll'[1].pc = "done" /\ poll'[1].result # Null
        => /\ TerminalAnswer(MostRecentAnswer("log-1")')
           /\ poll'[1].result = MostRecentAnswer("log-1")'.value
     /\ served' # served
        => IF TerminalAnswer(MostRecentAnswer("log-1")')
           THEN /\ poll'[1].pc = "done"
                /\ poll'[1].result = MostRecentAnswer("log-1")'.value
                /\ poll'[1].queries = poll[1].queries
                /\ poll'[1].sleeps = poll[1].sleeps
           ELSE /\ poll'[1].pc = "await_sleep"
                /\ poll'[1].result = Undef
     /\ poll[1].pc = "done" => poll'[1] = poll[1]]_vars

\* C9 witness: a poll returned a terminal answer after an answer without a
\* log had made it sleep and query again.
C9_Witness ==
  /\ poll[1].pc = "done"
  /\ poll[1].result = ResultsWith(LOG_CREATED_NO_DETECTIONS_PENDING)
  /\ scripts["log-1"][1] = Returned(Obj(EmptyObject))
  /\ poll[1].queries = 2

\* The index of the first terminal answer of a script
FirstTerminal(script) ==
  CHOOSE i \in 1..Len(script) :
    TerminalAnswer(script[i]) /\ \A j \in 1..(i - 1) : ~TerminalAnswer(script[j])

\* query, sleep, query, ..., query: n queries with a sleep between each two
Alternating(n) ==
  [i \in 1..(2 * n - 1) |-> IF i % 2 = 1 THEN "query" ELSE "sleep"]

\* C10: against a collaborator that gives k non-terminal answers and then a
\* terminal one, a poll that ends before its deadline (it reports no error)
\* returns that terminal answer after exactly k+1 queries and k sleeps,
\* queries and sleeps alternating.
C10_QueriesAndSleeps ==
  poll[1].pc = "done" /\ poll[1].err = NoError
  => /\ \E i \in 1..Len(scripts["log-1"]) : TerminalAnswer(scripts["log-1"][i])
     /\ LET k == FirstTerminal(scripts["log-1"]) - 1
        IN /\ poll[1].result = scripts["log-1"][k + 1].value
           /\ poll[1].queries = k + 1
           /\ poll[1].sleeps = k
           /\ poll[1].events = Alternating(k + 1)

\* C10 witness: two answers "detection in progress", then "completed": the
\* poll returned after 3 queries and 2 sleeps of one second.
C10_Witness ==
  /\ poll[1].pc = "done"
  /\ scripts["log-1"] =
       <<Returned(ResultsWith(LOG_CREATED_AND_DETECTION_IN_PROGRESS)),
         Returned(ResultsWith(LOG_CREATED_AND_DETECTION_IN_PROGRESS)),
         Returned(ResultsWith(LOG_CREATED_AND_DETECTION_COMPLETED))>>
  /\ poll[1].result = ResultsWith(LOG_CREATED_AND_DETECTION_COMPLETED)
  /\ poll[1].queries = 3 /\ poll[1].sleeps = 2
  /\ poll[1].baseInterval = MsPerSecond

----------------------------------------------------------------------------
(* Specification SpecPollLive: the poll of SpecPoll where time advances     *)
(* with every query and with every sleep, the collaborator answers every   *)
(* query and every timer fires.                                            *)

\* seconds: the deadlines the clock of MaxTicks ticks can reach
LiveTimeouts == 0..((MaxTicks * TickMs) \div MsPerSecond)

DoPollEnterLive ==
  \E logId \in {Str(""), Str("log-1")}, timeout \in LiveTimeouts,
     pollInterval \in PollIntervals :
    PollEnter(1, logId, timeout, pollInterval)

\* getDetections answers after some time
DoQueryReturnsLive == now > poll[1].askedAt /\ QueryReturns(1)

\* the timer fires after some time
DoSleepEndsLive ==
  now > poll[1].wakeAt - poll[1].currentPollInterval /\ SleepEnds(1)

NextPollLive ==
  DoPollEnterLive \/ DoQueryReturnsLive \/ DoSleepEndsLive \/ Tick

SpecPollLive ==
  /\ InitPoll
  /\ [][NextPollLive]_vars
  /\ WF_vars(DoQueryReturnsLive)
  /\ WF_vars(DoSleepEndsLive)
  /\ WF_vars(Tick)

\* The collaborator never gives a terminal answer for log-1
NeverTerminal ==
  \A i \in 1..Len(scripts["log-1"]) : ~TerminalAnswer(scripts["log-1"][i])

\* The poll has ended with the timeout error, reported once, and null
TimedOut ==
  /\ poll[1].pc = "done"
  /\ poll[1].result = Null
  /\ poll[1].err = TimeoutError(poll[1])
  /\ poll[1].errors = 1

\* C11: against a collaborator that never gives a terminal answer, with time
\* advancing at every query and sleep, a poll that has started its loop ends:
\* it reports the timeout error, once, and returns null; and it does so only
\* once the time elapsed since its start has reached the timeout.
C11_PollTimesOut ==
  /\ [](poll[1].pc = "done" /\ poll[1].err = TimeoutError(poll[1])
        => /\ now - poll[1].startTime >= poll[1].timeout * MsPerSecond
           /\ poll[1].errors = 1 /\ poll[1].result = Null)
  /\ (NeverTerminal /\ poll[1].pc \in {"await_query", "await_sleep"}) ~> TimedOut

\* C11 witness: a poll with a timeout of one second, polling every second a
\* collaborator that answers "detection in progress", has timed out after a
\* query and a sleep.
C11_Witness ==
  /\ scripts["log-1"] = <<Returned(ResultsWith(LOG_CREATED_AND_DETECTION_IN_PROGRESS))>>
  /\ TimedOut
  /\ poll[1].timeout = 1 /\ poll[1].baseInterval = MsPerSecond
  /\ poll[1].queries = 1 /\ poll[1].sleeps = 1

\* C12: a getDetections call that throws, whatever the message, does not end
\* the poll and reaches its caller neither as an exception nor as a reported
\* error: the poll goes to sleep for one pollInterval exactly as it does after
\* a "detection in progress" answer, and when the timer fires before the
\* deadline it queries again.  The only error a poll that has queried ever
\* reports is the timeout, once the deadline is reached.
C12_ThrownErrorsRetried ==
  [][/\ served' # served /\ MostRecentAnswer("log-1")'.thrown
        => /\ poll'[1] =
                [AfterAnswer(poll[1],
                   Returned(ResultsWith(LOG_CREATED_AND_DETECTION_IN_PROGRESS)))
                 EXCEPT !.lastResponse = MostRecentAnswer("log-1")']
           /\ poll'[1].pc = "await_sleep"
           /\ poll'[1].wakeAt = now + poll[1].baseInterval
           /\ poll'[1].sleeps = poll[1].sleeps + 1
           /\ poll'[1].err = NoError /\ poll'[1].errors = 0
     /\ poll[1].pc = "await_sleep" /\ poll'[1] # poll[1]
        /\ now - poll[1].startTime < poll[1].timeoutMs
        => /\ poll'[1].pc = "await_query"
           /\ poll'[1].queries = poll[1].queries + 1
     /\ poll'[1].queries > 0 /\ poll'[1].err # NoError
        => /\ poll'[1].err = TimeoutError(poll'[1])
           /\ now' - poll'[1].startTime >= poll'[1].timeoutMs]_vars

\* C12 witness: getDetections threw "Network Error", the poll slept and
\* queried again, and returned the terminal answer of the second query.
C12_Witness ==
  /\ scripts["log-1"] =
       <<Threw("Network Error"),
         Returned(ResultsWith(LOG_CREATED_AND_DETECTION_COMPLETED))>>
  /\ poll[1].pc = "done"
  /\ poll[1].result = ResultsWith(LOG_CREATED_AND_DETECTION_COMPLETED)
  /\ poll[1].events = <<"query", "sleep", "query">>
  /\ poll[1].err = NoError

\* C13: a detection poll called on a logger that is not configured, or with
\* an empty logId, reports one error and returns null at once: getDetections
\* is never called and the poll never sleeps.
C13_PollPreconditions ==
  poll[1].pc # "idle" /\ (~configured \/ Falsy(poll[1].logId))
  => /\ poll[1].pc = "done"
     /\ poll[1].result = Null
     /\ poll[1].err # NoError /\ poll[1].errors = 1
     /\ poll[1].queries = 0 /\ poll[1].sleeps = 0 /\ poll[1].events = <<>>
     /\ served["log-1"] = 0
     /\ now = 0

\* C13 witness: a poll on a configured logger with logId '' has ended with
\* the error about the log id.
C13_Witness ==
  /\ configured
  /\ poll[1].pc = "done"
  /\ poll[1].logId = Str("")
  /\ poll[1].err = Err("Log ID is required for detection polling.")
  /\ poll[1].result = Null

----------------------------------------------------------------------------
(* Properties of the submitted record *)

\* The identifiers given out by the log calls made so far
IssuedIds == {Uuid(n) : n \in 1..creates}

\* The call uses no legacy detection field
CurrentScheme(p) ==
  /\ ~Defined(p.hallucinationDetection)
  /\ ~Defined(p.inconsistencyDetection)
  /\ ~Defined(p.hallucinationDetectionSampleRate)

C15_LogOutcomes ==
  lastOp = "log" /\ configured
  => /\ lastResult.type \in {"null", "undefined", "string"}
     /\ lastResult = Null <=> lastErr # NoError
     /\ lastResult = Null => lastCreated = NoRecord
     /\ lastResult = Undef <=> (lastErr = NoError /\ lastCreated = NoRecord)
     /\ lastResult = Undef => ~(lastDraw < sampleRate)
     /\ lastResult.type = "string" <=> lastCreated # NoRecord
     /\ lastResult.type = "string" => lastDraw < sampleRate /\ lastErr = NoError
     /\ \A d \in Draws :
          lastResult = Null <=> InternalLogResult(lastArg, d).result = Null

\* C15 witness: a call with documents that pass validation, on a logger
\* sampling half of the calls, drew 0.5 and returned undefined with no error.
C15_Witness ==
  /\ lastOp = "log" /\ configured
  /\ sampleRate = 5 /\ lastDraw = 5
  /\ Truthy(lastArg.documents)
  /\ lastResult = Undef
  /\ lastErr = NoError
  /\ lastCreated = NoRecord

----------------------------------------------------------------------------
(* Properties of the reconciliation of the two detection schemes *)

\* A rate that is absent, or a number of [0, 1]
AbsentOrInRange(r) == r = Undef \/ (r.type = "number" /\ r.n \in 0..10)

\* A config whose appName, environment, tags and sampleRate init accepts
PlainFieldsValid(c) ==
  /\ c.appName.type = "string" /\ c.appName.s # ""
  /\ c.environment.type = "string" /\ c.environment.s # ""
  /\ c.tags = Undef \/ c.tags.type = "object"
  /\ AbsentOrInRange(c.sampleRate)

\* C16: an init call with valid appName, environment, tags and sampleRate
\* that uses legacy detection fields only, with a hallucinationDetectionSampleRate
\* absent or in [0, 1], succeeds, with detections [HALLUCINATION] if
\* hallucinationDetection is true and [] otherwise (whatever
\* inconsistencyDetection is), with detectionSampleRate the given
\* hallucinationDetectionSampleRate or 0.0, and with one deprecation notice.
\* Such a call with current fields only, or with no detection field,
\* succeeds with no notice and stores the given detections and
\* detectionSampleRate, [] and 0.0 where they are absent.
C16_InitReconciliation ==
  [][lastOp' = "init" /\ PlainFieldsValid(lastArg')
     => /\ AnyLegacyField(lastArg') /\ ~AnyCurrentField(lastArg')
           /\ AbsentOrInRange(lastArg'.hallucinationDetectionSampleRate)
           => /\ lastErr' = NoError /\ configured'
              /\ detections' =
                   (IF lastArg'.hallucinationDetection = Bool(TRUE)
                    THEN <<HALLUCINATION>> ELSE <<>>)
              /\ detectionSampleRate' =
                   (IF lastArg'.hallucinationDetectionSampleRate = Undef
                    THEN 0 ELSE lastArg'.hallucinationDetectionSampleRate.n)
              /\ lastWarns' = 1
        /\ ~AnyLegacyField(lastArg')
           /\ AbsentOrInRange(lastArg'.detectionSampleRate)
           => /\ lastErr' = NoError /\ configured'
              /\ detections' =
                   (IF lastArg'.detections = Undef
                    THEN <<>> ELSE lastArg'.detections.a)
              /\ detectionSampleRate' =
                   (IF lastArg'.detectionSampleRate = Undef
                    THEN 0 ELSE lastArg'.detectionSampleRate.n)
              /\ lastWarns' = 0]_vars

\* C16 witness: init({ hallucinationDetection: false, inconsistencyDetection:
\* true, hallucinationDetectionSampleRate: 0.5 }) succeeded with no
\* detection, the rate 0.5 and one notice.
C16_Witness ==
  /\ lastOp = "init"
  /\ lastArg.hallucinationDetection = Bool(FALSE)
  /\ lastArg.inconsistencyDetection = Bool(TRUE)
  /\ lastArg.hallucinationDetectionSampleRate = Num(5)
  /\ lastErr = NoError /\ configured
  /\ detections = <<>> /\ detectionSampleRate = 5
  /\ lastWarns = 1

\* C17 (as claimed): the record of a log call that uses legacy detection
\* fields only has the detections ['hallucination'] iff the call's
\* hallucinationDetection is true, has the call's
\* hallucinationDetectionSampleRate as detectionSampleRate when the call
\* gives one, and the call emitted one deprecation notice.
C17_LogReconciliation ==
  Created /\ AnyLegacyField(lastArg) /\ ~AnyCurrentField(lastArg)
  => /\ lastCreated.detections =
          (IF lastArg.hallucinationDetection = Bool(TRUE)
           THEN <<HALLUCINATION>> ELSE <<>>)
     /\ lastArg.hallucinationDetectionSampleRate # Undef
        => lastCreated.detectionSampleRate =
             lastArg.hallucinationDetectionSampleRate.n
     /\ lastWarns = 1

\* C18: a log call that sets hallucinationDetection or inconsistencyDetection,
\* to true or to false, and has no userQuery or no modelOutput, reports an
\* error, returns null and hands nothing to create.
C18_LegacyNeedsQueryAndOutput ==
  /\ lastOp = "log"
  /\ Defined(lastArg.hallucinationDetection)
     \/ Defined(lastArg.inconsistencyDetection)
  /\ Falsy(lastArg.userQuery) \/ Falsy(lastArg.modelOutput)
  => LogFailed

\* C18 witness: a configured logger refused log({ userQuery: 'q',
\* inconsistencyDetection: true }), a call from which the conversion draws
\* no detection, for its missing modelOutput.
C18_Witness ==
  /\ lastOp = "log" /\ configured
  /\ lastArg.inconsistencyDetection = Bool(TRUE)
  /\ lastArg.hallucinationDetection = Undef
  /\ lastArg.userQuery = Str("q") /\ lastArg.modelOutput = Undef
  /\ lastErr = Err("userQuery and modelOutput are required when using deprecated parameters")
  /\ lastResult = Null /\ lastCreated = NoRecord

\* C19: the record of a log call without legacy fields has the call's
\* detections if the call gives them, an empty list included, and the
\* logger's otherwise; and it has the call's detectionSampleRate if the call
\* gives one, 0 included, and the logger's otherwise.  The call leaves the
\* logger's own detections and detectionSampleRate as they were.
C19_PerCallOverride ==
  [][lastOp' = "log" /\ lastCreated' # NoRecord /\ CurrentScheme(lastArg')
     => /\ lastCreated'.detections =
             (IF lastArg'.detections # Undef
              THEN lastArg'.detections.a ELSE detections)
        /\ lastCreated'.detectionSampleRate =
             (IF lastArg'.detectionSampleRate # Undef
              THEN lastArg'.detectionSampleRate.n ELSE detectionSampleRate)
        /\ detections' = detections
        /\ detectionSampleRate' = detectionSampleRate]_vars

\* C19 witness: on a logger configured with a hallucination detection and the
\* rate 0.5, a call giving detectionSampleRate 0 and no detections submitted
\* a record with the logger's detection and the rate 0.
C19_Witness ==
  /\ Created
  /\ detections = <<HALLUCINATION>> /\ detectionSampleRate = 5
  /\ lastArg.detections = Undef /\ lastArg.detectionSampleRate = Num(0)
  /\ lastCreated.detections = <<HALLUCINATION>>
  /\ lastCreated.detectionSampleRate = 0

----------------------------------------------------------------------------
(* Specification SpecTags: init and log calls that vary the default tags   *)
(* of the logger and the tags of the call.                                 *)

OwnerTags ==
  Obj([k \in {"team", "owner"} |-> IF k = "team" THEN Str("core") ELSE Str("ann")])

TagsConfigs ==
  {Config(Str("app"), Str("dev"), t, sr, NoDetect) :
     t \in {Undef, Obj(EmptyObject), TeamTags, OwnerTags},
     sr \in {Undef, Num(5)}}

TagsParams ==
  {Params(uq, Undef, Undef, Undef, Undef, t, NoDetect) :
     uq \in {Undef, Str("q")},
     t \in {Undef, Null, Obj(EmptyObject), CallTags,
            Obj([k \in {"run"} |-> Str("r1")])}}

DoInitTags == \E config \in TagsConfigs : InitCall(config)

DoLogTags == \E params \in TagsParams, draw \in Draws : LogCall(params, draw)

NextTags == DoInitTags \/ DoLogTags

SpecTags == Init /\ [][NextTags]_vars

\* The tags a log call gives: the keys and values of params.tags, none when
\* the call has no tags
GivenTags(p) == IF p.tags.type = "object" THEN p.tags.o ELSE EmptyObject

\* C20: the tags of a submitted record have the keys of the logger's default
\* tags and of the call's tags, with the call's value on every key the call
\* gives and the default value on every other key; a call without tags
\* submits the default tags as they are.
C20_TagsMerged ==
  Created
  => /\ DOMAIN lastCreated.tags = (DOMAIN tags) \cup (DOMAIN GivenTags(lastArg))
     /\ \A k \in DOMAIN GivenTags(lastArg) :
          lastCreated.tags[k] = GivenTags(lastArg)[k]
     /\ \A k \in (DOMAIN tags) \ (DOMAIN GivenTags(lastArg)) :
          lastCreated.tags[k] = tags[k]
     /\ lastArg.tags = Undef => lastCreated.tags = tags

\* C20 witness: with the defaults { team: 'core', owner: 'ann' } and the call
\* tags { team: 'call', run: 'call' } the record has the call's team, the
\* call's run and the default owner.
C20_Witness ==
  /\ Created
  /\ tags = OwnerTags.o
  /\ lastArg.tags = CallTags
  /\ lastCreated.tags["team"] = Str("call")
  /\ lastCreated.tags["run"] = Str("call")
  /\ lastCreated.tags["owner"] = Str("ann")

----------------------------------------------------------------------------
(* Specification SpecTypes: init and log calls whose detections field is   *)
(* an array, is absent, or has another type.                               *)

TypesConfigs ==
  {Config(Str("app"), Str("dev"), Undef, sr,
          Detect(Undef, Undef, Undef, det, Undef)) :
     sr \in {Undef, Num(5)},
     det \in {Undef, Null, Arr(<<HALLUCINATION>>)}}

TypesParams ==
  {Params(uq, mo, docs, Undef, Undef, Undef,
          Detect(Undef, Undef, Undef, det, dsr)) :
     uq \in {Undef, Str("q")}, mo \in {Undef, Str("m")},
     docs \in {Undef, Arr(<<Str("d")>>)},
     det \in {Undef, Null, Num(1), Arr(<<>>), Arr(<<DOCUMENT_RELEVANCY>>)},
     dsr \in {Undef, Num(15)}}

DoInitTypes == \E config \in TypesConfigs : InitCall(config)

DoLogTypes == \E params \in TypesParams, draw \in Draws : LogCall(params, draw)

NextTypes == DoInitTypes \/ DoLogTypes

SpecTypes == Init /\ [][NextTypes]_vars

\* C21 (as claimed): init returns the logger for every configuration, and
\* log resolves for every payload, to null with an error reported when it
\* found a problem, and otherwise to undefined or to an id: no call ends
\* with an exception.
C21_NoExceptionEscapes ==
  /\ lastOp = "init" => lastResult = ThisLogger
  /\ lastOp = "log"
     => /\ lastResult.type \in {"null", "undefined", "string"}
        /\ lastResult = Null => lastErr # NoError

----------------------------------------------------------------------------
(* Specification SpecPolls: the polls of PollIds run concurrently on one   *)
(* configured logger, each for its own log id, their steps between awaits  *)
(* interleaved in every order.                                             *)

LogIdOf(p) == "log-" \o ToString(p)

\* The answers getDetections gives in turn for a log id: never a terminal
\* one, a terminal one at once, or one after an answer "in progress" or
\* after an error
PairScripts ==
  {<<Returned(ResultsWith(LOG_CREATED_AND_DETECTION_IN_PROGRESS))>>,
   <<Returned(ResultsWith(LOG_CREATED_NO_DETECTIONS_PENDING))>>,
   <<Returned(ResultsWith(LOG_CREATED_AND_DETECTION_IN_PROGRESS)),
     Returned(ResultsWith(LOG_CREATED_AND_DETECTION_COMPLETED))>>,
   <<Threw("Network Error"),
     Returned(ResultsWith(LOG_CREATED_AND_DETECTION_COMPLETED))>>}

InitPolls ==
  /\ ConfiguredLogger
  /\ NoCalls
  /\ now = 0
  /\ scripts \in [{LogIdOf(p) : p \in PollIds} -> PairScripts]
  /\ served = [id \in {LogIdOf(p) : p \in PollIds} |-> 0]
  /\ poll = [p \in PollIds |-> IdlePoll]

DoPollEnterOwn ==
  \E p \in PollIds, timeout \in {1}, pollInterval \in PollIntervals :
    PollEnter(p, Str(LogIdOf(p)), timeout, pollInterval)

DoQueryReturnsAny == \E p \in PollIds : QueryReturns(p)

DoSleepEndsAny == \E p \in PollIds : SleepEnds(p)

NextPolls ==
  DoPollEnterOwn \/ DoQueryReturnsAny \/ DoSleepEndsAny \/ Tick

SpecPolls == InitPolls /\ [][NextPolls]_vars

\* The script of poll p has a terminal answer
HasTerminal(p) ==
  \E i \in 1..Len(scripts[LogIdOf(p)]) : TerminalAnswer(scripts[LogIdOf(p)][i])

\* C22: in every interleaving of the polls of a logger, each for its own log
\* id: the getDetections calls answered for a log id are exactly the queries
\* of the poll of that id; a poll that returns a value returns the first
\* terminal answer of its own id's sequence, after as many queries and sleeps
\* as it makes alone, and a poll that returns null has timed out before its
\* sequence reached a terminal answer; and a step of one poll changes neither
\* the local state of another poll, nor the answers another poll will get,
\* nor the logger.
C22_PollsIndependent ==
  [][\A p \in PollIds :
       /\ served'[LogIdOf(p)] =
            poll'[p].queries - (IF poll'[p].pc = "await_query" THEN 1 ELSE 0)
       /\ poll'[p].pc # "idle" => poll'[p].logId = Str(LogIdOf(p))
       /\ poll'[p].pc = "done" /\ poll'[p].result # Null
          => /\ HasTerminal(p)
             /\ LET k == FirstTerminal(scripts[LogIdOf(p)]) - 1
                IN /\ poll'[p].result = scripts[LogIdOf(p)][k + 1].value
                   /\ poll'[p].queries = k + 1
                   /\ poll'[p].sleeps = k
                   /\ poll'[p].events = Alternating(k + 1)
                   /\ poll'[p].err = NoError
       /\ poll'[p].pc = "done" /\ poll'[p].result = Null
          => /\ poll'[p].err = TimeoutError(poll'[p])
             /\ HasTerminal(p)
                => poll'[p].queries < FirstTerminal(scripts[LogIdOf(p)])
       /\ poll'[p] # poll[p]
          => /\ \A q \in PollIds \ {p} :
                  /\ poll'[q] = poll[q]
                  /\ served'[LogIdOf(q)] = served[LogIdOf(q)]
             /\ UNCHANGED <<loggerVars, scripts>>]_vars

\* C22 witness: poll 2 started while poll 1 was waiting; poll 1 returned the
\* completed detection of log-1 after two queries, and poll 2, whose log-2
\* stays in progress, timed out.
C22_Witness ==
  /\ scripts["log-1"] =
       <<Returned(ResultsWith(LOG_CREATED_AND_DETECTION_IN_PROGRESS)),
         Returned(ResultsWith(LOG_CREATED_AND_DETECTION_COMPLETED))>>
  /\ scripts["log-2"] =
       <<Returned(ResultsWith(LOG_CREATED_AND_DETECTION_IN_PROGRESS))>>
  /\ poll[1].pc = "done" /\ poll[2].pc = "done"
  /\ poll[2].startTime > poll[1].startTime
  /\ poll[1].result = ResultsWith(LOG_CREATED_AND_DETECTION_COMPLETED)
  /\ poll[1].queries = 2 /\ served["log-1"] = 2
  /\ poll[2].result = Null /\ poll[2].err = TimeoutError(poll[2])
  /\ poll[2].queries >= 1

----------------------------------------------------------------------------
(* Specification SpecLogs: the log calls of CallIds issued concurrently on *)
(* one configured logger; a call runs from its start to its await of       *)
(* create, and from there to its return, the steps of the calls            *)
(* interleaved in every order.                                             *)

\* A logger after init({ appName: 'app', environment: 'dev', tags: { team:
\* 'core' }, sampleRate }) with sampleRate 0.5 or 1.0
InitLogs ==
  /\ appName = Str("app")
  /\ environment = Str("dev")
  /\ tags = TeamTags.o
  /\ sampleRate \in {5, 10}
  /\ configured = TRUE
  /\ detections = <<>>
  /\ detectionSampleRate = 0
  /\ NoCalls
  /\ NoPolls

ConcurrentParams ==
  {Params(uq, Str("m"), docs, Undef, Undef, t,
          Detect(Undef, Undef, Undef, det, Undef)) :
     uq \in {Undef, Str("q"), Str("q2")},
     docs \in {Undef, Arr(<<Str("d"), Doc(Str("text"), Undef)>>)},
     t \in {Undef, CallTags},
     det \in {Undef, Arr(<<HALLUCINATION>>)}}

DoLogStart ==
  \E c \in CallIds, params \in ConcurrentParams, draw \in Draws :
    LogStart(c, params, draw)

DoCreateResolves == \E c \in CallIds : CreateResolves(c)

NextLogs == DoLogStart \/ DoCreateResolves

SpecLogs == InitLogs /\ [][NextLogs]_vars

\* The calls that handed a record to create
Submitting == {c \in CallIds : inflight[c].record # NoRecord}

\* C23: in every interleaving of concurrent log calls on a configured logger,
\* create is called once for each call that passed the checks and was
\* sampled, and for no other; the record of a call has an id no other call's
\* record has, and that call's userQuery, modelOutput, documents, detections
\* and tags (merged with the logger's); a call that submitted returns the id
\* of its own record, and a call that did not returns null or undefined; and
\* a step of one call leaves the record and the result of every other call
\* as they were, as it leaves a record once it is handed to create.
C23_ConcurrentLogs ==
  [][/\ creates' = Cardinality(Submitting')
     /\ \A c \in CallIds :
          /\ inflight'[c].record # NoRecord
             => /\ \A d \in Submitting' \ {c} :
                     inflight'[d].record.id # inflight'[c].record.id
                /\ inflight'[c].record.userQuery = inflight'[c].params.userQuery
                /\ inflight'[c].record.modelOutput = inflight'[c].params.modelOutput
                /\ inflight'[c].record.documents = inflight'[c].params.documents
                /\ inflight'[c].record.detections =
                     (IF inflight'[c].params.detections = Undef
                      THEN <<>> ELSE inflight'[c].params.detections.a)
                /\ inflight'[c].record.tags =
                     [k \in DOMAIN tags \cup DOMAIN GivenTags(inflight'[c].params) |->
                        IF k \in DOMAIN GivenTags(inflight'[c].params)
                        THEN GivenTags(inflight'[c].params)[k] ELSE tags[k]]
                /\ inflight'[c].err = NoError
          /\ inflight'[c].pc = "done"
             => IF inflight'[c].record # NoRecord
                THEN inflight'[c].result = inflight'[c].record.id
                ELSE inflight'[c].result \in {Null, Undef}
          /\ inflight'[c] # inflight[c]
             => \A d \in CallIds \ {c} : inflight'[d] = inflight[d]
          /\ inflight[c].record # NoRecord
             => inflight'[c].record = inflight[c].record]_vars

\* C23 witness: two calls with different payloads have both submitted a
\* record and returned, each the id of its own record.
C23_Witness ==
  /\ inflight[1].pc = "done" /\ inflight[2].pc = "done"
  /\ inflight[1].params.userQuery = Str("q")
  /\ inflight[2].params.userQuery = Str("q2")
  /\ inflight[1].record # NoRecord /\ inflight[2].record # NoRecord
  /\ inflight[1].record.id = Uuid(1) /\ inflight[2].record.id = Uuid(2)
  /\ inflight[1].result = Uuid(1) /\ inflight[2].result = Uuid(2)
  /\ inflight[1].record.userQuery = Str("q")
  /\ inflight[2].record.userQuery = Str("q2")

----------------------------------------------------------------------------
(* LogsResource.getDetections and LogsResource.create                      *)

\* o.k, undefined when the object has no such key
Get(o, k) == IF k \in DOMAIN o THEN o[k] ELSE Undef

\* x?.map(f) || null for the lists of a response, taken here with no element
MapOrNull(x) == IF x.type = "array" THEN Arr(x.a) ELSE Null

\* convertToDetectionResults(response): the camelCase results, or the
\* TypeError of reading a field of an absent log or of mapping absent
\* evaluations.  Of the fields of the log the id, the status and the
\* appName are kept.
ConvertToDetectionResults(response) ==
  IF Get(response.o, "log").type # "object"
  THEN Threw("TypeError: Cannot read properties of undefined (reading 'id')")
  ELSE IF Get(response.o, "evaluations").type # "array"
  THEN Threw("TypeError: Cannot read properties of undefined (reading 'map')")
  ELSE Returned(Obj(
         [log |-> Obj([id |-> Get(response.o["log"].o, "id"),
                       status |-> Get(response.o["log"].o, "status"),
                       appName |-> Get(response.o["log"].o, "app_name")]),
          logDocuments |-> MapOrNull(Get(response.o, "log_documents")),
          evaluations |-> Arr(response.o["evaluations"].a)]))

\* getDetections(logId) when client.get answers with reply: every error
\* thrown inside the try is caught and null returned (lines 203-220)
GetDetections(logId, reply) ==
  IF Falsy(logId) THEN Returned(Null)
  ELSE IF reply.thrown THEN Returned(Null)
  ELSE IF Falsy(reply.value) THEN Returned(Null)
  ELSE IF ConvertToDetectionResults(reply.value).thrown THEN Returned(Null)
  ELSE ConvertToDetectionResults(reply.value)

\* A call of getDetections, its arguments and outcome kept as the last call
GetDetectionsCall(logId, reply) ==
  /\ lastOp' = "getDetections"
  /\ lastArg' = [logId |-> logId, reply |-> reply]
  /\ lastResult' = GetDetections(logId, reply)
  /\ UNCHANGED <<loggerVars, creates, lastCreated, lastDraw, lastErr,
                 lastWarns, everConfigured, givenRate, inflight, pollVars>>

\* The responses of GET /logs/{id}/rca
Responses ==
  {Obj([log |-> Obj([id |-> Str("log-1"), status |-> Str(st),
                     app_name |-> Str(app)]),
        log_documents |-> docs, evaluations |-> ev]) :
     st \in LOG_STATUS, app \in {"app", "other"},
     docs \in {Null, Arr(<<>>)}, ev \in {Undef, Arr(<<>>)}}
  \cup {Obj([evaluations |-> Arr(<<>>)]), Obj(EmptyObject)}

Replies ==
  {Returned(r) : r \in Responses \cup {Null, Undef}}
  \cup {Threw("Network Error"), Threw("timeout of 1000ms exceeded"),
        Threw("Request failed with status code 404")}

DoGetDetections ==
  \E logId \in {Str(""), Str("log-1"), Str("log-2")}, reply \in Replies :
    GetDetectionsCall(logId, reply)

NextGet == DoGetDetections

SpecGet == Init /\ [][NextGet]_vars

\* C24 (as claimed): getDetections throws an Error when the API call fails,
\* and returns the converted detection results when it succeeds with a
\* well-formed response.
C24_GetDetectionsThrowsOnFailure ==
  lastOp = "getDetections" /\ Truthy(lastArg.logId)
  => /\ lastArg.reply.thrown => lastResult.thrown
     /\ ~lastArg.reply.thrown /\ lastArg.reply.value \in Responses
        /\ ~ConvertToDetectionResults(lastArg.reply.value).thrown
        => /\ ~lastResult.thrown
           /\ lastResult.value.o["log"].o["status"] =
                lastArg.reply.value.o["log"].o["status"]
           /\ lastResult.value.o["log"].o["appName"] =
                lastArg.reply.value.o["log"].o["app_name"]

----------------------------------------------------------------------------
(* handleErrors: the wrapper of the methods of the HTTP client             *)

\* let retries = 3; let delay = 1000
InitialRetries == 3
InitialDelay == 1000

\* What an invocation of the wrapped method gives: a response with data, or
\* an error: an axios error or not, with the status of its response (0 when
\* it has no response) and its code
Ok(data) == [ok |-> TRUE, data |-> data]
Fails(axios, status, code) ==
  [ok |-> FALSE, axios |-> axios, status |-> status, code |-> code]

\* The class of the error reported for an axios error with a response
StatusError(status) ==
  IF status = 400 THEN "BadRequestError"
  ELSE IF status = 401 THEN "AuthenticationError"
  ELSE IF status = 403 THEN "PermissionDeniedError"
  ELSE IF status = 404 THEN "NotFoundError"
  ELSE IF status = 422 THEN "UnprocessableEntityError"
  ELSE "APIStatusError"

\* `logError(error); return null` after n invocations and the given waits
Gave(result, n, waits, error) ==
  [result |-> result, invocations |-> n, waits |-> waits, error |-> error]

\* Attempt with the delay left as it is between the attempts
RECURSIVE AttemptNoBackoff(_, _, _, _, _)
AttemptNoBackoff(script, n, retries, delay, waits) ==
  LET o == AnswerAt(script, n)
  IN IF retries <= 0 THEN Gave(Undef, n - 1, waits, "none")
     ELSE IF o.ok THEN Gave(o.data, n, waits, "none")
     ELSE IF o.axios /\ o.status # 0
     THEN Gave(Null, n, waits, StatusError(o.status))
     ELSE IF o.axios /\ o.code = "ECONNABORTED"
     THEN (IF retries > 1
           THEN AttemptNoBackoff(script, n + 1, retries - 1, delay,
                                 Append(waits, delay))
           ELSE Gave(Null, n, waits, "APITimeoutError"))
     ELSE IF o.axios THEN Gave(Null, n, waits, "APIConnectionError")
     ELSE Gave(Null, n, waits, "Error")

\* The while loop of the wrapper from its n-th invocation of the wrapped
\* method on (lines 201-290)
RECURSIVE Attempt(_, _, _, _, _)
Attempt(script, n, retries, delay, waits) ==
  LET o == AnswerAt(script, n)
  IN IF retries <= 0 THEN Gave(Undef, n - 1, waits, "none")
     ELSE IF o.ok THEN Gave(o.data, n, waits, "none")
     ELSE IF o.axios /\ o.status # 0
     THEN Gave(Null, n, waits, StatusError(o.status))
     ELSE IF o.axios /\ o.code = "ECONNABORTED"
     THEN (IF retries > 1
           THEN Attempt(script, n + 1, retries - 1, delay * 2,
                        Append(waits, delay))
           ELSE Gave(Null, n, waits, "APITimeoutError"))
     ELSE IF o.axios THEN Gave(Null, n, waits, "APIConnectionError")
     ELSE Gave(Null, n, waits, "Error")

\* The wrapped method called, its invocations answering as the script says
HandleErrors(script) == Attempt(script, 1, InitialRetries, InitialDelay, <<>>)

HandleErrorsCall(script) ==
  /\ lastOp' = "handleErrors"
  /\ lastArg' = script
  /\ lastResult' = HandleErrors(script)
  /\ UNCHANGED <<loggerVars, creates, lastCreated, lastDraw, lastErr,
                 lastWarns, everConfigured, givenRate, inflight, pollVars>>

Outcomes ==
  {Ok(Str("data")),
   Fails(TRUE, 0, "ECONNABORTED"),
   Fails(TRUE, 0, "ERR_NETWORK"),
   Fails(TRUE, 404, "ERR_BAD_REQUEST"),
   Fails(TRUE, 500, "ECONNABORTED"),
   Fails(FALSE, 0, "")}

DoHandleErrors ==
  \E script \in [1..InitialRetries -> Outcomes] : HandleErrorsCall(script)

NextRetry == DoHandleErrors

SpecRetry == Init /\ [][NextRetry]_vars

\* A request timeout: an axios error with no response and code ECONNABORTED
IsTimeout(o) == ~o.ok /\ o.axios /\ o.status = 0 /\ o.code = "ECONNABORTED"

\* The first invocation of a script that is not a request timeout
FirstOther(script) ==
  CHOOSE i \in 1..Len(script) :
    ~IsTimeout(script[i]) /\ \A j \in 1..(i - 1) : IsTimeout(script[j])

\* C25: a wrapped method that fails with a request timeout at each of its
\* invocations is invoked 3 times, with waits of 1000 and 2000 ms between
\* them, and then an APITimeoutError is reported and null returned.  A
\* success at the first, second or third invocation returns response.data
\* with no later invocation, and a failure of another kind at one of them
\* reports its error and returns null with no later invocation (one
\* invocation in all when it is the first).
C25_RetriesOnTimeout ==
  lastOp = "handleErrors"
  => IF \A i \in 1..InitialRetries : IsTimeout(lastArg[i])
     THEN /\ lastResult.invocations = 3
          /\ lastResult.waits = <<1000, 2000>>
          /\ lastResult.error = "APITimeoutError"
          /\ lastResult.result = Null
     ELSE LET i == FirstOther(lastArg)
          IN /\ lastResult.invocations = i
             /\ lastResult.waits = SubSeq(<<1000, 2000>>, 1, i - 1)
             /\ IF lastArg[i].ok
                THEN /\ lastResult.result = lastArg[i].data
                     /\ lastResult.error = "none"
                ELSE /\ lastResult.result = Null
                     /\ lastResult.error \notin {"none", "APITimeoutError"}

\* C25 witness: request timeouts at all three invocations.
C25_Witness ==
  /\ lastOp = "handleErrors"
  /\ \A i \in 1..3 : lastArg[i] = Fails(TRUE, 0, "ECONNABORTED")
  /\ lastResult = Gave(Null, 3, <<1000, 2000>>, "APITimeoutError")

----------------------------------------------------------------------------
(* DatasetsResource.batchCreateRows                                        *)

\* Rows of the list given, and the batch size given
MaxRows == 4
MaxBatch == 4

\* The server: it refuses a batch of more than `limit` rows, and a batch
\* with a row of `bad`, and answers any other batch with one response per row
Refused(batch, server) ==
  \/ Len(batch) > server.limit
  \/ \E j \in 1..Len(batch) : batch[j] \in server.bad

\* rows.slice(i, i + batchSize), with i counted from 1
Slice(rows, i, batchSize) ==
  SubSeq(rows, i, IF i + batchSize - 1 < Len(rows)
                  THEN i + batchSize - 1 ELSE Len(rows))

\* A request made, with the batch size of the call that made it
Request(batch, batchSize, ok) == [batch |-> batch, size |-> batchSize, ok |-> ok]

\* BatchLoop going on to the next batch after a failure at batch size 1
RECURSIVE BatchLoopSwallows(_, _, _, _, _)
BatchLoopSwallows(rows, i, st, batchSize, server) ==
  IF st.threw \/ i > Len(rows) THEN st
  ELSE LET batch == Slice(rows, i, batchSize)
       IN IF ~Refused(batch, server)
          THEN BatchLoopSwallows(rows, i + batchSize,
                 [st EXCEPT !.responses = @ \o batch,
                            !.requests = Append(@, Request(batch, batchSize, TRUE))],
                 batchSize, server)
          ELSE LET failed ==
                     [st EXCEPT !.requests =
                        Append(@, Request(batch, batchSize, FALSE))]
               IN IF batchSize = 1
                  THEN BatchLoopSwallows(rows, i + batchSize, failed,
                                         batchSize, server)
                  ELSE BatchLoopSwallows(rows, i + batchSize,
                         BatchLoopSwallows(batch, 1, failed, batchSize \div 2, server),
                         batchSize, server)

\* The for loop of batchCreateRows(datasetID, rows, rowResponses, batchSize)
\* from index i on (lines 231-247); st holds rowResponses, the requests made
\* so far and whether an error has been thrown to the caller
RECURSIVE BatchLoop(_, _, _, _, _)
BatchLoop(rows, i, st, batchSize, server) ==
  IF st.threw \/ i > Len(rows) THEN st
  ELSE LET batch == Slice(rows, i, batchSize)
       IN IF ~Refused(batch, server)
          THEN BatchLoop(rows, i + batchSize,
                 [st EXCEPT !.responses = @ \o batch,
                            !.requests = Append(@, Request(batch, batchSize, TRUE))],
                 batchSize, server)
          ELSE LET failed ==
                     [st EXCEPT !.requests =
                        Append(@, Request(batch, batchSize, FALSE))]
               IN IF batchSize = 1
                  THEN [failed EXCEPT !.threw = TRUE]
                  ELSE BatchLoop(rows, i + batchSize,
                         BatchLoop(batch, 1, failed, batchSize \div 2, server),
                         batchSize, server)

BatchCreateRows(rows, batchSize, server) ==
  BatchLoop(rows, 1, [responses |-> <<>>, requests |-> <<>>, threw |-> FALSE],
            batchSize, server)

BatchCreateRowsCall(rows, batchSize, server) ==
  /\ lastOp' = "batchCreateRows"
  /\ lastArg' = [rows |-> rows, batchSize |-> batchSize, server |-> server]
  /\ lastResult' = BatchCreateRows(rows, batchSize, server)
  /\ UNCHANGED <<loggerVars, creates, lastCreated, lastDraw, lastErr,
                 lastWarns, everConfigured, givenRate, inflight, pollVars>>

DoBatchCreateRows ==
  \E n \in 0..MaxRows, batchSize \in 1..MaxBatch, limit \in 0..MaxBatch :
    \E bad \in SUBSET (1..n) :
      BatchCreateRowsCall([j \in 1..n |-> j], batchSize,
                          [limit |-> limit, bad |-> bad])

NextBatch == DoBatchCreateRows

SpecBatch == Init /\ [][NextBatch]_vars

\* The rows of the successful requests among the first n, in request order
RECURSIVE Accepted(_, _)
Accepted(requests, n) ==
  IF n = 0 THEN <<>>
  ELSE Accepted(requests, n - 1)
       \o (IF requests[n].ok THEN requests[n].batch ELSE <<>>)

\* The batch sizes a call with this batch size can come down to
RECURSIVE Levels(_)
Levels(batchSize) == IF batchSize = 1 THEN 1 ELSE 1 + Levels(batchSize \div 2)

NonEmptyString(v) == v.type = "string" /\ v.s # ""

\* C27 (as claimed): whatever init calls have been made, a logger whose
\* configured flag is true has a non-empty string as appName and as
\* environment, and a sampleRate and a detectionSampleRate between 0.0 and
\* 1.0 inclusive.
C27_ConfiguredMeansValid ==
  configured
  => /\ NonEmptyString(appName)
     /\ NonEmptyString(environment)
     /\ sampleRate \in 0..10
     /\ detectionSampleRate \in 0..10

----------------------------------------------------------------------------
(* Specification SpecFrame: init calls, log calls with their own tags and  *)
(* detection fields, and a detection poll, on one logger.                  *)

FrameConfigs ==
  {Config(Str("app"), Str("dev"), t, Undef, d) :
     t \in {Undef, TeamTags},
     d \in {NoDetect,
            Detect(Undef, Undef, Undef, Arr(<<DOCUMENT_RELEVANCY>>), Num(5))}}
  \cup {Config(Str("app"), Str("dev"), Undef, Num(15), NoDetect)}

FrameParams ==
  {Params(Str("q"), Str("m"), Arr(<<Str("d")>>), Undef, Undef, t, d) :
     t \in {Undef, CallTags},
     d \in {NoDetect,
            Detect(Undef, Undef, Undef, Arr(<<HALLUCINATION>>), Num(10))}}
  \cup {Params(Str("q"), Str("m"), Undef, Undef, Undef, Undef, d) :
     d \in {Detect(Undef, Undef, Undef, Undef, Num(15)),
            Detect(Bool(TRUE), Undef, Num(5), Undef, Undef)}}

InitFrame ==
  /\ NewLogger
  /\ NoCalls
  /\ now = 0
  /\ scripts = [id \in {"log-1"} |->
       <<Threw("Network Error"),
         Returned(ResultsWith(LOG_CREATED_AND_DETECTION_IN_PROGRESS)),
         Returned(ResultsWith(LOG_CREATED_AND_DETECTION_COMPLETED))>>]
  /\ served = [id \in {"log-1"} |-> 0]
  /\ poll = [p \in PollIds |-> IdlePoll]

DoInitFrame == \E config \in FrameConfigs : InitCall(config)

DoLogFrame == \E params \in FrameParams, draw \in Draws : LogCall(params, draw)

DoPollEnterFrame ==
  \E logId \in {Str(""), Str("log-1")}, pollInterval \in PollIntervals :
    PollEnter(1, logId, 1, pollInterval)

NextFrame ==
  DoInitFrame \/ DoLogFrame \/ DoPollEnterFrame \/ DoQueryReturns
  \/ DoSleepEnds \/ Tick

SpecFrame == InitFrame /\ [][NextFrame]_vars

\* A call that gives no tags and no detection field of either scheme
PlainCall(p) ==
  /\ p.tags = Undef
  /\ ~AnyLegacyField(p)
  /\ ~AnyCurrentField(p)

\* C28: a log call, whatever it returns, and every step of a detection poll,
\* whatever it reports, leave appName, environment, tags, sampleRate,
\* detections, detectionSampleRate and configured as they were; and a log
\* call that gives no tags and no detection fields submits the logger's own
\* tags, detections and detectionSampleRate, whatever earlier calls gave.
C28_ConfigurationFrame ==
  [][/\ lastOp' = "log" \/ poll' # poll => UNCHANGED loggerVars
     /\ lastOp' = "log" /\ lastCreated' # NoRecord /\ PlainCall(lastArg')
        => /\ lastCreated'.tags = tags'
           /\ lastCreated'.detections = detections'
           /\ lastCreated'.detectionSampleRate = detectionSampleRate'
    ]_vars

\* C28 witness: on a logger with the default tags { team: 'core' } and the
\* document_relevancy detection, a poll has ended and a log call with its
\* own tags and its own detections has submitted a record.
C28_Witness ==
  /\ Created
  /\ lastArg.tags = CallTags
  /\ lastArg.detections = Arr(<<HALLUCINATION>>)
  /\ lastCreated.tags = CallTags.o
  /\ tags = TeamTags.o
  /\ detections = <<DOCUMENT_RELEVANCY>>
  /\ detectionSampleRate = 5
  /\ poll[1].pc = "done"

----------------------------------------------------------------------------
(* LogsResource.create, and specification SpecCreate: concurrent log calls *)
(* through LogsResource, whose post succeeds or fails.                     *)

\* One element of params.documents as create sends it (lines 128-139)
ConvertDocument(doc) ==
  IF TypeOf(doc) = "string" THEN doc
  ELSE IF doc.type = "object" /\ "pageContent" \in DOMAIN doc.o
  THEN Obj([k \in {"page_content", "metadata"} |->
              IF k = "page_content" THEN doc.o["pageContent"]
              ELSE Get(doc.o, "metadata")])
  ELSE doc

\* The body create posts to /logs (lines 128-157)
ApiParams(params) ==
  [id |-> params.id,
   created_at |-> params.createdAt,
   app_name |-> params.appName,
   environment |-> params.environment,
   user_query |-> params.userQuery,
   model_output |-> params.modelOutput,
   documents |->
     IF params.documents.type = "array"
     THEN [j \in DOMAIN params.documents.a |->
             ConvertDocument(params.documents.a[j])]
     ELSE <<>>,
   message_history |-> params.messageHistory,
   instructions |-> params.instructions,
   tags |-> params.tags,
   detections |-> params.detections,
   detection_sample_rate |-> params.detectionSampleRate]

\* What client.post does with a request: it resolves with the response
\* body, or rejects with an error
Resolved(body) == [ok |-> TRUE, body |-> body, error |-> ""]
Refusal(msg) == [ok |-> FALSE, body |-> Undef, error |-> msg]

\* LogsCreate with the error of the post thrown on to the caller
LogsCreateRethrows(params, post) ==
  IF post.ok
  THEN [thrown |-> FALSE, value |-> post.body, err |-> NoError,
        request |-> ApiParams(params)]
  ELSE [thrown |-> TRUE, value |-> Str(post.error), err |-> NoError,
        request |-> ApiParams(params)]

\* create(params), the post having the outcome post: what create resolves
\* to, the error it hands to logError, and the body it posted
LogsCreate(params, post) ==
  IF post.ok
  THEN [thrown |-> FALSE, value |-> post.body, err |-> NoError,
        request |-> ApiParams(params)]
  ELSE [thrown |-> FALSE, value |-> Null,
        err |-> Err("[LogsResource.create] " \o post.error),
        request |-> ApiParams(params)]

\* The post of call c settles, create returns, and the call returns its id
\* (logs.ts lines 159-164, part_010 lines 321-337)
PostSettles(c, post) ==
  /\ inflight[c].pc = "await_create"
  /\ \E r \in {LogsCreate(inflight[c].record, post)} :
       inflight' = [inflight EXCEPT ![c] =
         [pc |-> "done",
          params |-> inflight[c].params,
          record |-> inflight[c].record,
          result |-> IF r.thrown
                     THEN [type |-> "rejected", s |-> r.value.s]
                     ELSE inflight[c].record.id,
          err |-> r.err,
          created |-> r.value,
          posted |-> r.request,
          stored |-> post.ok]]
  /\ UNCHANGED <<loggerVars, creates, lastCreated, lastOp, lastArg, lastDraw,
                 lastResult, lastErr, lastWarns, everConfigured, givenRate,
                 pollVars>>

Posts ==
  {Resolved(Obj(EmptyObject)), Resolved(Null), Refusal("Network Error"),
   Refusal("Request failed with status code 500")}

DoPostSettles == \E c \in CallIds, post \in Posts : PostSettles(c, post)

NextCreate == DoLogStart \/ DoPostSettles

SpecCreate == InitLogs /\ [][NextCreate]_vars

\* The calls whose create has returned
Settled == {c \in CallIds : inflight[c].pc = "done" /\ inflight[c].record # NoRecord}

\* C29: a log call that passed the checks and was sampled resolves to the id
\* it generated, a string, whether the post behind create succeeded or
\* failed: it never rejects and never returns null.  When the post failed,
\* create has reported the error and resolved to null, and no log was
\* stored; the body posted carries the id the call returns.
C29_CreateFailureSwallowed ==
  \A c \in Settled :
    /\ inflight[c].result = inflight[c].record.id
    /\ inflight[c].result.type = "string"
    /\ inflight[c].posted.id = inflight[c].result
    /\ ~inflight[c].stored
       => /\ inflight[c].created = Null
          /\ inflight[c].err # NoError
    /\ inflight[c].stored => inflight[c].err = NoError

\* C29 witness: the post of a sampled call with documents failed with a
\* network error; the call has returned its id, create has reported the
\* error, and nothing was stored.
C29_Witness ==
  /\ 1 \in Settled
  /\ ~inflight[1].stored
  /\ inflight[1].result = Uuid(1)
  /\ inflight[1].err = Err("[LogsResource.create] Network Error")
  /\ inflight[1].posted.documents =
       <<Str("d"),
         Obj([k \in {"page_content", "metadata"} |->
                IF k = "page_content" THEN Str("text") ELSE Undef])>>

----------------------------------------------------------------------------
(* The deadline of a detection poll *)

\* The poll has passed the checks of the logger and of the log id
InLoop(p) == poll[p].pc # "idle" /\ configured /\ Truthy(poll[p].logId)

\* C30: a poll calls getDetections only at a time when less than timeout
\* seconds have passed since it entered its loop, so no query starts at or
\* after the deadline; and a poll with timeout 0 that has passed the checks
\* ends at once without any query or sleep, reports the timeout error and
\* returns null.
C30_QueriesBeforeDeadline ==
  /\ [][poll'[1].queries > poll[1].queries
        => /\ poll'[1].queries = poll[1].queries + 1
           /\ poll'[1].askedAt = now
           /\ now - poll'[1].startTime < poll'[1].timeout * MsPerSecond]_vars
  /\ [](poll[1].queries > 0
        => poll[1].askedAt - poll[1].startTime < poll[1].timeout * MsPerSecond)
  /\ [](InLoop(1) /\ poll[1].timeout = 0
        => /\ poll[1].pc = "done"
           /\ poll[1].queries = 0 /\ poll[1].sleeps = 0
           /\ served["log-1"] = 0
           /\ poll[1].err = TimeoutError(poll[1]) /\ poll[1].errors = 1
           /\ poll[1].result = Null)

\* C30 witness: a poll with a timeout of one second and no pause between
\* queries has queried at 0 ms and at 500 ms; when its timer fired at the
\* deadline, 1000 ms, it made no third query and ended with the timeout error.
C30_Witness ==
  /\ InLoop(1)
  /\ poll[1].timeout = 1 /\ poll[1].baseInterval = 0
  /\ poll[1].queries = 2
  /\ poll[1].askedAt = poll[1].startTime + TickMs
  /\ now = poll[1].startTime + MsPerSecond
  /\ poll[1].pc = "done"
  /\ poll[1].err = TimeoutError(poll[1])
  /\ poll[1].result = Null

====
